---- MODULE Spec2Model ----
(***************************************************************************)
(* Model of the cv-converter core: the text normalizer (utils.py), the     *)
(* record validator (extraction.py) and the template renderer              *)
(* (utils.fill_template).                                                  *)
(*                                                                         *)
(* A text is a sequence of lexemes.  A lexeme is a string that the code    *)
(* never looks inside: the token delimiters "{{" and "}}", the words and   *)
(* digits a placeholder is built from, the four internal markers, a blank, *)
(* a newline, a bullet glyph, a letter or a word of payload.  Python's     *)
(* str.replace, the "in" test, split and strip are computed on these       *)
(* sequences as the interpreter computes them on characters.               *)
(***************************************************************************)
EXTENDS Integers, Sequences, FiniteSets, TLC

(***************************************************************************)
(* Bounds of the model.                                                    *)
(***************************************************************************)
MaxParas == 2
MaxRows == 3
MaxExps == 2
MaxEntries == 2
MaxNameLen == 3
MaxWordLen == 4
MaxParts == 3
MaxFileLen == 3
MaxBatch == 2

(***************************************************************************)
(* Lexemes.                                                                *)
(***************************************************************************)
Open == "{{"
Close == "}}"
SP == " "
NL == "\n"
Dash == "-"
Bullet == "U+2022"

DELETE_EXPERIENCE == "<<<DELETE_EXPERIENCE>>>"
REMOVE_THIS_LINE == "<<<REMOVE_THIS_LINE>>>"
BOLD == "<<<BOLD>>>"
END_BOLD == "<<<END_BOLD>>>"

Markers == {DELETE_EXPERIENCE, REMOVE_THIS_LINE, BOLD, END_BOLD}

TAB == "\t"

Whitespace == {SP, NL, TAB}

(***************************************************************************)
(* Python string primitives on lexeme sequences.                           *)
(***************************************************************************)
\* s[i:i+len(p)] == p
MatchAt(s, p, i) ==
    /\ i + Len(p) - 1 <= Len(s)
    /\ \A j \in 1..Len(p) : s[i + j - 1] = p[j]

\* p in s
Contains(s, p) == \E i \in 1..(Len(s) - Len(p) + 1) : MatchAt(s, p, i)

\* s.startswith(p)
StartsWith(s, p) == MatchAt(s, p, 1)

RECURSIVE ReplaceFrom(_, _, _, _)
ReplaceFrom(s, p, v, i) ==
    IF i > Len(s) THEN <<>>
    ELSE IF MatchAt(s, p, i) THEN v \o ReplaceFrom(s, p, v, i + Len(p))
    ELSE <<s[i]>> \o ReplaceFrom(s, p, v, i + 1)

\* s.replace(p, v), p non-empty: leftmost non-overlapping occurrences
Replace(s, p, v) == ReplaceFrom(s, p, v, 1)

RECURSIVE LStrip(_)
LStrip(s) ==
    IF s # <<>> /\ Head(s) \in Whitespace THEN LStrip(Tail(s)) ELSE s

RECURSIVE RStrip(_)
RStrip(s) ==
    IF s # <<>> /\ s[Len(s)] \in Whitespace
    THEN RStrip(SubSeq(s, 1, Len(s) - 1)) ELSE s

\* s.strip()
Strip(s) == RStrip(LStrip(s))

RECURSIVE SplitFrom(_, _, _, _)
SplitFrom(s, p, i, cur) ==
    IF i > Len(s) THEN <<cur>>
    ELSE IF MatchAt(s, p, i) THEN <<cur>> \o SplitFrom(s, p, i + Len(p), <<>>)
    ELSE SplitFrom(s, p, i + 1, Append(cur, s[i]))

\* s.split(p), p non-empty
Split(s, p) == SplitFrom(s, p, 1, <<>>)

RECURSIVE Join(_, _)
\* sep.join(parts)
Join(parts, sep) ==
    IF parts = <<>> THEN <<>>
    ELSE IF Len(parts) = 1 THEN parts[1]
    ELSE parts[1] \o sep \o Join(Tail(parts), sep)

RECURSIVE Flatten(_)
Flatten(parts) ==
    IF parts = <<>> THEN <<>> ELSE Head(parts) \o Flatten(Tail(parts))

\* d.get(key, default)
Get(d, key, default) == IF key \in DOMAIN d THEN d[key] ELSE default

(***************************************************************************)
(* The placeholder vocabulary (utils.py 186-290).                          *)
(***************************************************************************)
ExpSlots == 20
RespSlots == 100
EduSlots == 5
CertSlots == 10

DigitLex == <<"0", "1", "2", "3", "4", "5", "6", "7", "8", "9">>

RECURSIVE Digits(_)
\* str(n) for n >= 0, one lexeme per decimal digit
Digits(n) ==
    IF n < 10 THEN <<DigitLex[n + 1]>>
    ELSE Digits(n \div 10) \o <<DigitLex[(n % 10) + 1]>>

ScalarTok(name) == <<Open, name, Close>>
ExpTok(n, field) == <<Open, "EXP">> \o Digits(n) \o <<field, Close>>
RespTok(n, m) == <<Open, "EXP">> \o Digits(n) \o <<"_RESP">> \o Digits(m) \o <<Close>>
EduTok(n, field) == <<Open, "EDU">> \o Digits(n) \o <<field, Close>>
CertTok(n, field) == <<Open, "CERT">> \o Digits(n) \o <<field, Close>>

ScalarNames ==
    <<"CANDIDATE_NAME", "POSITION", "TOTAL_EXPERIENCE_YEARS", "PHONE",
      "EMAIL", "INTRO_PARAGRAPH">>
ScalarKeys ==
    <<"candidate_name", "position", "total_experience_years", "phone",
      "email", "intro_paragraph">>
ExpFields == <<"_COMPANY", "_ROLE", "_DURATION", "_LOCATION">>
EduFields == <<"_INSTITUTION", "_DURATION", "_DEGREE">>
CertFields == <<"_NAME", "_YEAR", "_PROVIDER", "_LOCATION">>

(***************************************************************************)
(* Text normalizer (utils.py 44-135).  Here a text is a sequence of        *)
(* characters, each a one-character string; the en dash and the em dash    *)
(* are written by their code points.                                       *)
(***************************************************************************)
EnDash == "U+2013"
EmDash == "U+2014"

UpperCase ==
    <<"A", "B", "C", "D", "E", "F", "G", "H", "I", "J", "K", "L", "M",
      "N", "O", "P", "Q", "R", "S", "T", "U", "V", "W", "X", "Y", "Z">>
LowerCase ==
    <<"a", "b", "c", "d", "e", "f", "g", "h", "i", "j", "k", "l", "m",
      "n", "o", "p", "q", "r", "s", "t", "u", "v", "w", "x", "y", "z">>

IndexIn(seq, c) == CHOOSE k \in 1..Len(seq) : seq[k] = c
IsUpperChar(c) == \E k \in 1..Len(UpperCase) : UpperCase[k] = c
IsLowerChar(c) == \E k \in 1..Len(LowerCase) : LowerCase[k] = c
IsDigit(c) == \E k \in 1..Len(DigitLex) : DigitLex[k] = c
\* \w of the re module
IsWordChar(c) == IsUpperChar(c) \/ IsLowerChar(c) \/ IsDigit(c) \/ c = "_"

upper_char(c) == IF IsLowerChar(c) THEN UpperCase[IndexIn(LowerCase, c)] ELSE c
lower_char(c) == IF IsUpperChar(c) THEN LowerCase[IndexIn(UpperCase, c)] ELSE c

\* s.upper(), s.lower()
upper(s) == [k \in 1..Len(s) |-> upper_char(s[k])]
lower(s) == [k \in 1..Len(s) |-> lower_char(s[k])]

\* s.isupper(): a cased character, and no lower-case one
isupper(s) ==
    /\ \E k \in 1..Len(s) : IsUpperChar(s[k])
    /\ \A k \in 1..Len(s) : ~IsLowerChar(s[k])

\* s.capitalize()
capitalize(s) ==
    IF s = <<>> THEN <<>> ELSE <<upper_char(s[1])>> \o lower(Tail(s))

RECURSIVE WordsFrom(_, _, _)
WordsFrom(s, i, cur) ==
    IF i > Len(s) THEN (IF cur = <<>> THEN <<>> ELSE <<cur>>)
    ELSE IF s[i] \in Whitespace
         THEN (IF cur = <<>> THEN <<>> ELSE <<cur>>) \o WordsFrom(s, i + 1, <<>>)
         ELSE WordsFrom(s, i + 1, Append(cur, s[i]))

\* s.split() without a separator: the runs of non-blank characters
split(s) == WordsFrom(s, 1, <<>>)

\* utils.py 129-133, with every word capitalized whatever its case
FormatWord_every_word(word) == capitalize(word)

\* utils.py 129-133: the word as format_name appends it
FormatWord(word) ==
    IF isupper(word) /\ Len(word) > 1 THEN capitalize(word) ELSE word

\* utils.py 119-135
format_name(name) ==
    IF name = <<>> THEN <<>>
    ELSE LET words == split(name)
         IN Join([k \in 1..Len(words) |-> FormatWord(words[k])], <<SP>>)

\* utils.py 50: the terms of an open end
PresentTerms ==
    {<<"p", "r", "e", "s", "e", "n", "t">>,
     <<"c", "u", "r", "r", "e", "n", "t">>,
     <<"o", "n", "g", "o", "i", "n", "g">>,
     <<"t", "i", "l", "l", " ", "d", "a", "t", "e">>,
     <<"n", "o", "w">>,
     <<"t", "i", "l", "l", " ", "n", "o", "w">>}

PresentText == <<"P", "r", "e", "s", "e", "n", "t">>
ToText == <<" ", "t", "o", " ">>
ToPresent == <<" ", "t", "o", " ", "P", "r", "e", "s", "e", "n", "t">>
DashPresent == <<"-", " ", "P", "r", "e", "s", "e", "n", "t">>
SpDashPresent == <<" ", "-", " ", "P", "r", "e", "s", "e", "n", "t">>

\* utils.py 74-75
months ==
    <<<<"J", "A", "N">>,
      <<"F", "E", "B">>,
      <<"M", "A", "R">>,
      <<"A", "P", "R">>,
      <<"M", "A", "Y">>,
      <<"J", "U", "N">>,
      <<"J", "U", "L">>,
      <<"A", "U", "G">>,
      <<"S", "E", "P">>,
      <<"O", "C", "T">>,
      <<"N", "O", "V">>,
      <<"D", "E", "C">>>>

\* the last place of the run of word characters that starts at i (i - 1
\* when there is none)
WordEnd(s, i) ==
    CHOOSE e \in (i - 1)..Len(s) :
        /\ \A k \in i..e : IsWordChar(s[k])
        /\ e = Len(s) \/ ~IsWordChar(s[e + 1])

\* the last place of the run of blanks that starts at i (i - 1 when none)
SpaceEnd(s, i) ==
    CHOOSE e \in (i - 1)..Len(s) :
        /\ \A k \in i..e : s[k] \in Whitespace
        /\ e = Len(s) \/ s[e + 1] \notin Whitespace

\* s[:n]
Take(s, n) == SubSeq(s, 1, IF n < Len(s) THEN n ELSE Len(s))

\* \d{4} at place i
Digits4At(s, i) == i >= 1 /\ i + 3 <= Len(s) /\ \A k \in i..(i + 3) : IsDigit(s[k])

\* re.search: the leftmost place where the pattern matches, 0 when nowhere
Search(s, At(_, _)) ==
    LET hits == {i \in 1..Len(s) : At(s, i)}
    IN IF hits = {} THEN 0 ELSE CHOOSE i \in hits : \A j \in hits : i <= j

\* utils.py 56: (\w{3,})[- /](\d{4}); the separator is no word character,
\* so the word group runs to the end of its run
Pattern1At(s, i) ==
    LET e == WordEnd(s, i)
    IN /\ e - i + 1 >= 3
       /\ e + 1 <= Len(s)
       /\ s[e + 1] \in {"-", " ", "/"}
       /\ Digits4At(s, e + 2)

\* utils.py 56 with the whole word group, not its first three characters
Pattern1Out_whole_group(s, i) ==
    LET e == WordEnd(s, i)
    IN upper(SubSeq(s, i, e)) \o <<SP>> \o SubSeq(s, e + 2, e + 5)

\* m.group(1).upper()[:3] + " " + m.group(2)
Pattern1Out(s, i) ==
    LET e == WordEnd(s, i)
    IN Take(upper(SubSeq(s, i, e)), 3) \o <<SP>> \o SubSeq(s, e + 2, e + 5)

\* the length of the group (\d{1,2}) of utils.py 58 at i, two digits tried
\* first; 0 when the pattern (\d{1,2})[/-](\d{4}) does not match at i
Pattern2Len(s, i) ==
    IF ~IsDigit(s[i]) THEN 0
    ELSE IF /\ i + 2 <= Len(s)
            /\ IsDigit(s[i + 1])
            /\ s[i + 2] \in {"/", "-"}
            /\ Digits4At(s, i + 3) THEN 2
    ELSE IF /\ i + 1 <= Len(s)
            /\ s[i + 1] \in {"/", "-"}
            /\ Digits4At(s, i + 2) THEN 1
    ELSE 0

Pattern2At(s, i) == Pattern2Len(s, i) > 0

\* s.zfill(2) of a text of one or two characters
zfill2(s) == IF Len(s) < 2 THEN <<"0">> \o s ELSE s

\* int(s) of a text of digits
DigitValue(c) == IndexIn(DigitLex, c) - 1
RECURSIVE ToInt(_)
ToInt(s) ==
    IF s = <<>> THEN 0 ELSE 10 * ToInt(SubSeq(s, 1, Len(s) - 1)) + DigitValue(s[Len(s)])

\* utils.py 72-83, for the texts of digits format_date passes
get_month_abbr(month_num) ==
    LET month_int == ToInt(month_num)
    IN IF 1 <= month_int /\ month_int <= 12 THEN months[month_int] ELSE month_num

Pattern2Out(s, i) ==
    LET n == Pattern2Len(s, i)
    IN get_month_abbr(zfill2(SubSeq(s, i, i + n - 1))) \o <<SP>>
           \o SubSeq(s, i + n + 1, i + n + 4)

\* utils.py 60: (\w+)\s+(\d{4})
Pattern3At(s, i) ==
    LET e == WordEnd(s, i)
        w == SpaceEnd(s, e + 1)
    IN e >= i /\ w >= e + 1 /\ Digits4At(s, w + 1)

\* m.group(1)[:3].upper() + " " + m.group(2)
Pattern3Out(s, i) ==
    LET e == WordEnd(s, i)
        w == SpaceEnd(s, e + 1)
    IN upper(Take(SubSeq(s, i, e), 3)) \o <<SP>> \o SubSeq(s, w + 1, w + 4)

\* the place before the blanks of utils.py 62, (\w+),?\s+(\d{4}): behind the
\* word group and the comma when one follows it
CommaEnd(s, e) == IF e + 1 <= Len(s) /\ s[e + 1] = "," THEN e + 1 ELSE e

Pattern4Blanks(s, i, c) ==
    LET e == WordEnd(s, i)
        w == SpaceEnd(s, c + 1)
    IN e >= i /\ w >= c + 1 /\ Digits4At(s, w + 1)

\* the comma is taken when it is there, and given back when the rest fails
Pattern4At(s, i) ==
    LET e == WordEnd(s, i)
    IN Pattern4Blanks(s, i, CommaEnd(s, e)) \/ Pattern4Blanks(s, i, e)

Pattern4Out(s, i) ==
    LET e == WordEnd(s, i)
        c == IF Pattern4Blanks(s, i, CommaEnd(s, e)) THEN CommaEnd(s, e) ELSE e
        w == SpaceEnd(s, c + 1)
    IN upper(Take(SubSeq(s, i, e), 3)) \o <<SP>> \o SubSeq(s, w + 1, w + 4)

\* utils.py 50
IsPresentTerm(date_str) == lower(date_str) \in PresentTerms

\* utils.py 44-70
format_date(date_str) ==
    IF date_str = <<>> THEN <<>>
    ELSE IF IsPresentTerm(date_str) THEN PresentText
    ELSE IF Search(date_str, Pattern1At) > 0
         THEN Pattern1Out(date_str, Search(date_str, Pattern1At))
    ELSE IF Search(date_str, Pattern2At) > 0
         THEN Pattern2Out(date_str, Search(date_str, Pattern2At))
    ELSE IF Search(date_str, Pattern3At) > 0
         THEN Pattern3Out(date_str, Search(date_str, Pattern3At))
    ELSE IF Search(date_str, Pattern4At) > 0
         THEN Pattern4Out(date_str, Search(date_str, Pattern4At))
    ELSE date_str

RECURSIVE ReSplitFrom(_, _, _, _)
\* a match of \s*[seps]\s* starts at i when the blanks from i on lead to a
\* separator, and takes the blanks behind it
ReSplitFrom(s, seps, i, cur) ==
    IF i > Len(s) THEN <<cur>>
    ELSE LET j == SpaceEnd(s, i) + 1
         IN IF j <= Len(s) /\ s[j] \in seps
            THEN <<cur>> \o ReSplitFrom(s, seps, SpaceEnd(s, j + 1) + 1, <<>>)
            ELSE ReSplitFrom(s, seps, i + 1, Append(cur, s[i]))

\* re.split with the hyphen as the only separator
ReSplit_hyphen_only(s, seps) == ReSplitFrom(s, {"-"}, 1, <<>>)

\* re.split(r'\s*[seps]\s*', s)
ReSplit(s, seps) == ReSplitFrom(s, seps, 1, <<>>)

\* a month abbreviation at place i, whatever its case
MonthAt(s, i) ==
    /\ i + 2 <= Len(s)
    /\ \E k \in 1..Len(months) : upper(SubSeq(s, i, i + 2)) = months[k]

RECURSIVE MonthUpperFrom(_, _)
MonthUpperFrom(s, i) ==
    IF i > Len(s) THEN <<>>
    ELSE IF MonthAt(s, i) THEN upper(SubSeq(s, i, i + 2)) \o MonthUpperFrom(s, i + 3)
    ELSE <<s[i]>> \o MonthUpperFrom(s, i + 1)

\* utils.py 97-98: re.sub of the month abbreviations, ignoring case, by
\* their upper case
MonthUpper(s) == MonthUpperFrom(s, 1)

\* the length of a match of ([A-Z]{3})-?(\d{4}) at i, 0 when none
SpaceYearLen(s, i) ==
    IF ~(i + 2 <= Len(s) /\ \A k \in i..(i + 2) : IsUpperChar(s[k])) THEN 0
    ELSE IF i + 3 <= Len(s) /\ s[i + 3] = "-" /\ Digits4At(s, i + 4) THEN 8
    ELSE IF Digits4At(s, i + 3) THEN 7
    ELSE 0

RECURSIVE SpaceYearFrom(_, _)
SpaceYearFrom(s, i) ==
    IF i > Len(s) THEN <<>>
    ELSE LET n == SpaceYearLen(s, i)
         IN IF n > 0
            THEN SubSeq(s, i, i + 2) \o <<SP>> \o SubSeq(s, i + n - 4, i + n - 1)
                     \o SpaceYearFrom(s, i + n)
            ELSE <<s[i]>> \o SpaceYearFrom(s, i + 1)

\* utils.py 100: re.sub(r'([A-Z]{3})-?(\d{4})', r'\1 \2', start)
SpaceYear(s) == SpaceYearFrom(s, 1)

\* utils.py 85-117
format_duration(duration, is_first_experience) ==
    IF duration = <<>> THEN <<>>
    ELSE IF Contains(duration, SpDashPresent) \/ Contains(duration, DashPresent)
    THEN LET parts == ReSplit(duration, {"-"})
             start == SpaceYear(MonthUpper(Strip(parts[1])))
         IN start \o ToPresent
    ELSE LET parts == ReSplit(duration, {"-", EnDash, EmDash})
         IN IF Len(parts) = 2
            THEN format_date(Strip(parts[1])) \o ToText \o format_date(Strip(parts[2]))
            ELSE IF Len(parts) = 1 /\ is_first_experience
            THEN LET start == format_date(Strip(parts[1]))
                 IN IF start # <<>> /\ start # PresentText THEN start \o ToPresent ELSE start
            ELSE duration

(***************************************************************************)
(* Token Resolver: the mapping built by fill_template (utils.py 185-311).  *)
(* A record is a function from keys to values; a text value is a lexeme    *)
(* sequence, a list value a sequence of texts or of records.               *)
(***************************************************************************)
\* the keys of all_repl in insertion order: basic_repl (with the two list
\* tokens added at 307-308), exp_repl, edu_repl, cert_repl
PerExp == Len(ExpFields) + RespSlots
NumBasic == Len(ScalarNames) + 2
NumExp == ExpSlots * PerExp
NumEdu == EduSlots * Len(EduFields)
NumCert == CertSlots * Len(CertFields)
NumRepl == NumBasic + NumExp + NumEdu + NumCert

basic_key(idx) ==
    IF idx <= Len(ScalarNames) THEN ScalarTok(ScalarNames[idx])
    ELSE IF idx = Len(ScalarNames) + 1 THEN ScalarTok("TECHNICAL_SKILLS_LIST")
    ELSE ScalarTok("LANGUAGE_SKILLS_LIST")

exp_key(i, j) ==
    IF j <= Len(ExpFields) THEN ExpTok(i, ExpFields[j])
    ELSE RespTok(i, j - Len(ExpFields))

repl_key(idx) ==
    IF idx <= NumBasic THEN basic_key(idx)
    ELSE IF idx <= NumBasic + NumExp
    THEN LET e == idx - NumBasic - 1
         IN exp_key((e \div PerExp) + 1, (e % PerExp) + 1)
    ELSE IF idx <= NumBasic + NumExp + NumEdu
    THEN LET e == idx - NumBasic - NumExp - 1
         IN EduTok((e \div Len(EduFields)) + 1, EduFields[(e % Len(EduFields)) + 1])
    ELSE LET e == idx - NumBasic - NumExp - NumEdu - 1
         IN CertTok((e \div Len(CertFields)) + 1, CertFields[(e % Len(CertFields)) + 1])

Placeholders == [idx \in 1..NumRepl |-> repl_key(idx)] \o <<>>

LocationNotSpecified == <<"Location", SP, "Not", SP, "Specified">>
DatesNotAvailable == <<"Dates", SP, "Not", SP, "Available">>
YearNotAvailable == <<"Year", SP, "Not", SP, "Available">>
ProviderNotSpecified == <<"Provider", SP, "Not", SP, "Specified">>
EnglishFluent == <<"English", SP, Dash, SP, "Fluent">>

\* a resolver that takes an experience with a company for data-bearing
has_data_company_only(d, i) ==
    LET exps == Get(d, "experiences", <<>>)
    IN i <= Len(exps) /\ Get(exps[i], "company", <<>>) # <<>>

\* i <= len(d.get("experiences", [])) and exp.get("company") and exp.get("role")
\* (utils.py 201-204)
has_data(d, i) ==
    LET exps == Get(d, "experiences", <<>>)
    IN /\ i <= Len(exps)
       /\ Get(exps[i], "company", <<>>) # <<>>
       /\ Get(exps[i], "role", <<>>) # <<>>

\* experiences_with_data after the loop at utils.py 200-245
ExperiencesWithData(d) == {i \in 1..ExpSlots : has_data(d, i)}

\* "\n".join([f"(bullet) {skill}" ...]) / ""   (utils.py 294-298)
tech_skills_text(d) ==
    LET tech_skills == Get(d, "technical_skills", <<>>)
    IN Join([k \in 1..Len(tech_skills) |-> <<Bullet, SP>> \o tech_skills[k]], <<NL>>)

\* ", ".join(langs) / "English - Fluent"   (utils.py 300-304)
langs_text(d) ==
    LET langs == Get(d, "language_skills", <<>>)
    IN IF langs # <<>> THEN Join(langs, <<",", SP>>) ELSE EnglishFluent

basic_value(d, idx) ==
    IF idx <= Len(ScalarKeys) THEN Get(d, ScalarKeys[idx], <<>>)
    ELSE IF idx = Len(ScalarKeys) + 1 THEN tech_skills_text(d)
    ELSE langs_text(d)

\* a resolver that appends the location to the company text
exp_value_joined(d, i, j) ==
    IF has_data(d, i)
    THEN LET exp == d["experiences"][i]
             location == Get(exp, "location", <<>>)
             responsibilities == Get(exp, "responsibilities", <<>>)
         IN IF j = 1
            THEN <<BOLD>> \o Get(exp, "company", <<>>) \o <<",", SP>> \o location
                 \o <<END_BOLD>>
            ELSE IF j = 2 THEN Get(exp, "role", <<>>)
            ELSE IF j = 3 THEN Get(exp, "duration", <<>>)
            ELSE IF j = 4
            THEN IF Strip(location) # <<>> THEN location ELSE LocationNotSpecified
            ELSE IF j - 4 <= Len(responsibilities) THEN responsibilities[j - 4]
            ELSE <<REMOVE_THIS_LINE>>
    ELSE <<DELETE_EXPERIENCE>>

\* the value of the j-th entry of slot i in exp_repl: COMPANY, ROLE, DURATION,
\* LOCATION, RESP1..RESP100   (utils.py 200-245)
exp_value(d, i, j) ==
    IF has_data(d, i)
    THEN LET exp == d["experiences"][i]
             location == Get(exp, "location", <<>>)
             responsibilities == Get(exp, "responsibilities", <<>>)
         IN IF j = 1 THEN <<BOLD>> \o Get(exp, "company", <<>>) \o <<END_BOLD>>
            ELSE IF j = 2 THEN Get(exp, "role", <<>>)
            ELSE IF j = 3 THEN Get(exp, "duration", <<>>)
            ELSE IF j = 4
            THEN IF Strip(location) # <<>> THEN location ELSE LocationNotSpecified
            ELSE IF j - 4 <= Len(responsibilities) THEN responsibilities[j - 4]
            ELSE <<REMOVE_THIS_LINE>>
    ELSE <<DELETE_EXPERIENCE>>

edu_value(d, i, j) ==
    LET education_data == Get(d, "education", <<>>)
    IN IF i <= Len(education_data)
       THEN LET edu == education_data[i]
                duration == Get(edu, "duration", <<>>)
            IN IF j = 1 THEN Get(edu, "institution", <<>>)
               ELSE IF j = 2
               THEN IF Strip(duration) # <<>> THEN duration ELSE DatesNotAvailable
               ELSE Get(edu, "degree", <<>>)
       ELSE <<REMOVE_THIS_LINE>>

\* a resolver that gives the year of a certification as it is
cert_value_year_as_is(d, i, j) ==
    LET certifications_data == Get(d, "certifications", <<>>)
    IN IF i <= Len(certifications_data)
       THEN LET cert == certifications_data[i]
                provider == Get(cert, "provider", <<>>)
            IN IF j = 1 THEN Get(cert, "name", <<>>)
               ELSE IF j = 2 THEN Get(cert, "year", <<>>)
               ELSE IF j = 3
               THEN IF Strip(provider) # <<>> THEN provider ELSE ProviderNotSpecified
               ELSE Get(cert, "location", <<>>)
       ELSE <<REMOVE_THIS_LINE>>

cert_value(d, i, j) ==
    LET certifications_data == Get(d, "certifications", <<>>)
    IN IF i <= Len(certifications_data)
       THEN LET cert == certifications_data[i]
                year == Get(cert, "year", <<>>)
                provider == Get(cert, "provider", <<>>)
            IN IF j = 1 THEN Get(cert, "name", <<>>)
               ELSE IF j = 2
               THEN IF Strip(year) # <<>> THEN year ELSE YearNotAvailable
               ELSE IF j = 3
               THEN IF Strip(provider) # <<>> THEN provider ELSE ProviderNotSpecified
               ELSE Get(cert, "location", <<>>)
       ELSE <<REMOVE_THIS_LINE>>

repl_value(d, idx) ==
    IF idx <= NumBasic THEN basic_value(d, idx)
    ELSE IF idx <= NumBasic + NumExp
    THEN LET e == idx - NumBasic - 1
         IN exp_value(d, (e \div PerExp) + 1, (e % PerExp) + 1)
    ELSE IF idx <= NumBasic + NumExp + NumEdu
    THEN LET e == idx - NumBasic - NumExp - 1
         IN edu_value(d, (e \div Len(EduFields)) + 1, (e % Len(EduFields)) + 1)
    ELSE LET e == idx - NumBasic - NumExp - NumEdu - 1
         IN cert_value(d, (e \div Len(CertFields)) + 1, (e % Len(CertFields)) + 1)

\* all_repl = {**basic_repl, **exp_repl, **edu_repl, **cert_repl}
all_repl(d) ==
    [idx \in 1..NumRepl |-> [placeholder |-> Placeholders[idx], value |-> repl_value(d, idx)]]

\* the slices of the text that run from a "{{" to a "}}": every key of the
\* mapping opens with "{{" and closes with "}}", so a key occurs in the text
\* (placeholder in new_text) exactly when it is one of these slices
Slices(text) ==
    {SubSeq(text, i, j) : i \in {i \in 1..Len(text) : text[i] = Open},
                          j \in {j \in 1..Len(text) : text[j] = Close}}

RECURSIVE ApplyFrom_open_ended(_, _, _)
\* a loop that looks for each key without its closing delimiter
ApplyFrom_open_ended(text, d, lo) ==
    LET stem(idx) == SubSeq(Placeholders[idx], 1, Len(Placeholders[idx]) - 1)
        hits == {idx \in lo..NumRepl : Contains(text, stem(idx))}
    IN IF hits = {} THEN text
       ELSE LET idx == CHOOSE i \in hits : \A j \in hits : i <= j
            IN ApplyFrom_open_ended(Replace(text, stem(idx), repl_value(d, idx)), d, idx + 1)

RECURSIVE ApplyFrom(_, _, _)
\* for placeholder, value in all_repl.items(): if placeholder in new_text: ...
\* from entry lo on: the loop acts at the first entry whose placeholder occurs
\* in the text as it then is, and goes on behind that entry
ApplyFrom(text, d, lo) ==
    LET found == Slices(text)
        hits == {idx \in lo..NumRepl : Placeholders[idx] \in found}
    IN IF hits = {} THEN text
       ELSE LET idx == CHOOSE i \in hits : \A j \in hits : i <= j
            IN ApplyFrom(Replace(text, all_repl(d)[idx].placeholder, all_repl(d)[idx].value),
                         d, idx + 1)

\* the replacement loop of utils.py 320-325 and 414-417, in insertion order
Substitute(text, d) == ApplyFrom(text, d, 1)

(***************************************************************************)
(* The document: top-level paragraphs and tables of rows of cells of       *)
(* paragraphs.  A paragraph is its runs and its line spacing; its text is  *)
(* the concatenation of the texts of its runs (python-docx).  The id of a  *)
(* paragraph stands for the identity of the paragraph object: the place    *)
(* <<table, row, cell, position>> it has in the template (table 0 is the   *)
(* body), or NewId for a paragraph made by cell.add_paragraph().           *)
(***************************************************************************)
Run(text, bold) ==
    [text |-> text, name |-> "Arial", size |-> 10, bold |-> bold, color |-> "000000"]

\* a run as authored in the template: no direct formatting
TemplateRun(text) ==
    [text |-> text, name |-> "None", size |-> 0, bold |-> "None", color |-> "None"]

NewId == <<0, 0, 0, 0>>

TemplatePara(text) ==
    [id |-> NewId, runs |-> <<TemplateRun(text)>>, line_spacing |-> "None"]

\* the paragraph cell.add_paragraph() appends to the cell
NewPara == [id |-> NewId, runs |-> <<>>, line_spacing |-> "None"]

\* paragraph.text
ParaText(p) == Flatten([k \in 1..Len(p.runs) |-> p.runs[k].text])

RECURSIVE RemoveIndices(_, _, _)
\* the members of seq whose position is not in idxs, from position k on
RemoveIndices(seq, idxs, k) ==
    IF k > Len(seq) THEN <<>>
    ELSE (IF k \in idxs THEN <<>> ELSE <<seq[k]>>) \o RemoveIndices(seq, idxs, k + 1)

ProjectName == "Project Name:"
LocationLabel == "Location:"
DurationLabel == "Duration:"

\* a split that forgets the bold-close marker
BoldPartRuns_unsplit(k, part) ==
    IF k = 1 /\ part # <<>> THEN <<Run(part, "None")>>
    ELSE IF Contains(part, <<END_BOLD>>) THEN <<Run(part, "True")>>
    ELSE <<>>

\* a split that leaves the text behind the bold-close marker bold as well
BoldPartRuns_bold_rest(k, part) ==
    IF k = 1 /\ part # <<>> THEN <<Run(part, "None")>>
    ELSE IF Contains(part, <<END_BOLD>>)
    THEN LET bold_parts == Split(part, <<END_BOLD>>)
         IN <<Run(bold_parts[1], "True")>> \o
            (IF Len(bold_parts) > 1 /\ bold_parts[2] # <<>>
             THEN <<Run(bold_parts[2], "True")>> ELSE <<>>)
    ELSE <<>>

\* the runs added for one piece of new_text.split("<<<BOLD>>>")
\* (utils.py 349-370, 444-465); k is the 1-based position of the piece
BoldPartRuns(k, part) ==
    IF k = 1 /\ part # <<>> THEN <<Run(part, "None")>>
    ELSE IF Contains(part, <<END_BOLD>>)
    THEN LET bold_parts == Split(part, <<END_BOLD>>)
         IN <<Run(bold_parts[1], "True")>> \o
            (IF Len(bold_parts) > 1 /\ bold_parts[2] # <<>>
             THEN <<Run(bold_parts[2], "None")>> ELSE <<>>)
    ELSE <<>>

BoldRuns(new_text) ==
    LET parts == Split(new_text, <<BOLD>>)
    IN Flatten([k \in 1..Len(parts) |-> BoldPartRuns(k, parts[k])])

HasBoldPair(new_text) ==
    Contains(new_text, <<BOLD>>) /\ Contains(new_text, <<END_BOLD>>)

\* a test that takes only the empty line for removable
IsBulletOnly_empty_only(new_text) == Strip(new_text) = <<>>

\* not new_text.strip() or new_text.strip() in ["-", bullet]   (utils.py 336, 427)
IsBulletOnly(new_text) == Strip(new_text) \in {<<>>, <<Dash>>, <<Bullet>>}

\* the body of the paragraph loop, utils.py 316-381: the paragraph as it is
\* left and whether it was queued in paragraphs_to_remove
ProcessTopParagraph(paragraph, d) ==
    LET original_text == ParaText(paragraph)
        substituted == Substitute(original_text, d)
        blanked == Replace(substituted, <<REMOVE_THIS_LINE>>, <<>>)
    IN IF Contains(substituted, <<DELETE_EXPERIENCE>>)
       THEN [para |-> paragraph, remove |-> TRUE]
       ELSE IF /\ Contains(substituted, <<REMOVE_THIS_LINE>>)
               /\ IsBulletOnly(blanked)
       THEN [para |-> paragraph, remove |-> TRUE]
       ELSE LET new_text == blanked
            IN IF new_text = original_text
               THEN [para |-> paragraph, remove |-> FALSE]
               ELSE IF Strip(new_text) = <<Dash>>
               THEN [para |-> [paragraph EXCEPT !.runs = <<>>], remove |-> FALSE]
               ELSE [para |-> [paragraph EXCEPT
                                  !.runs = IF HasBoldPair(new_text)
                                           THEN BoldRuns(new_text)
                                           ELSE <<Run(new_text, "False")>>,
                                  !.line_spacing = "1.5"],
                     remove |-> FALSE]

\* contains_experience_placeholder, utils.py 141-149
contains_experience_placeholder(text, exp_num) ==
    \/ Contains(text, ExpTok(exp_num, "_COMPANY"))
    \/ Contains(text, ExpTok(exp_num, "_ROLE"))
    \/ Contains(text, ExpTok(exp_num, "_DURATION"))
    \/ Contains(text, <<Open, "EXP">> \o Digits(exp_num) \o <<"_RESP">>)

\* get_row_text, utils.py 151-157
get_row_text(row) ==
    Flatten([c \in 1..Len(row) |->
        Flatten([k \in 1..Len(row[c]) |-> ParaText(row[c][k]) \o <<SP>>])])

\* first pass, utils.py 392-401: the indices queued in rows_to_delete
RowsToDelete(table, with_data) ==
    LET queued(r) == \E exp_num \in 1..ExpSlots :
                        /\ contains_experience_placeholder(get_row_text(table[r]), exp_num)
                        /\ exp_num \notin with_data
    IN SelectSeq([r \in 1..Len(table) |-> r], queued)

IsProjectHeader(line) ==
    /\ StartsWith(Strip(line), <<ProjectName>>)
    /\ Contains(Strip(line), <<LocationLabel>>)

\* new_text.replace("(bullet) ", "", 1)
ReplaceFirstBullet(s) ==
    IF \E i \in 1..Len(s) : MatchAt(s, <<Bullet, SP>>, i)
    THEN LET i == CHOOSE i \in 1..Len(s) :
                    /\ MatchAt(s, <<Bullet, SP>>, i)
                    /\ \A j \in 1..(i - 1) : ~MatchAt(s, <<Bullet, SP>>, j)
         IN SubSeq(s, 1, i - 1) \o SubSeq(s, i + 2, Len(s))
    ELSE s

\* one line of the multi-line branch written into paragraph, utils.py 474-496
LinePara(paragraph, line) ==
    [paragraph EXCEPT
        !.runs = <<Run(line, IF IsProjectHeader(line) THEN "True" ELSE "False")>>,
        !.line_spacing = "1.5"]

\* the single-line branch, utils.py 498-525
SingleLinePara(paragraph, new_text) ==
    IF IsProjectHeader(new_text)
    THEN LET shown == IF StartsWith(Strip(new_text), <<Bullet, SP>>)
                      THEN ReplaceFirstBullet(new_text) ELSE new_text
         IN [paragraph EXCEPT !.runs = <<Run(shown, "True")>>, !.line_spacing = "1.5"]
    ELSE [paragraph EXCEPT !.runs = <<Run(new_text, "False")>>, !.line_spacing = "1.5"]

\* the body of the cell paragraph loop, utils.py 411-525: the paragraph as it
\* is left, the paragraphs appended to the cell by cell.add_paragraph(), and
\* whether the paragraph was queued in paragraphs_to_remove
ProcessCellParagraph(paragraph, d) ==
    LET original_text == ParaText(paragraph)
        substituted == Substitute(original_text, d)
        blanked == Replace(substituted, <<REMOVE_THIS_LINE>>, <<>>)
        keep == [para |-> paragraph, added |-> <<>>, remove |-> FALSE]
    IN IF Contains(substituted, <<DELETE_EXPERIENCE>>) THEN keep
       ELSE IF /\ Contains(substituted, <<REMOVE_THIS_LINE>>)
               /\ IsBulletOnly(blanked)
       THEN [keep EXCEPT !.remove = TRUE]
       ELSE LET new_text == blanked
            IN IF new_text = original_text THEN keep
               ELSE IF Strip(new_text) = <<Dash>>
               THEN [para |-> [paragraph EXCEPT !.runs = <<>>],
                     added |-> <<>>, remove |-> TRUE]
               ELSE IF HasBoldPair(new_text)
               THEN [para |-> [paragraph EXCEPT !.runs = BoldRuns(new_text)],
                     added |-> <<>>, remove |-> FALSE]
               ELSE IF Contains(new_text, <<NL>>)
               THEN LET lines == Split(new_text, <<NL>>)
                    IN [para |-> LinePara(paragraph, lines[1]),
                        added |-> [k \in 1..(Len(lines) - 1) |->
                                      LinePara(NewPara, lines[k + 1])],
                        remove |-> FALSE]
               ELSE [para |-> SingleLinePara(paragraph, new_text),
                     added |-> <<>>, remove |-> FALSE]

RECURSIVE CellLoop(_, _, _, _, _)
\* for paragraph in cell.paragraphs (the list taken when the loop starts, n
\* paragraphs long), then the removal loop of utils.py 527-531
CellLoop(cell, n, k, to_remove, d) ==
    IF k > n THEN RemoveIndices(cell, to_remove, 1)
    ELSE LET r == ProcessCellParagraph(cell[k], d)
         IN CellLoop([cell EXCEPT ![k] = r.para] \o r.added, n, k + 1,
                     IF r.remove THEN to_remove \cup {k} ELSE to_remove, d)

ProcessCell(cell, d) == CellLoop(cell, Len(cell), 1, {}, d)

RECURSIVE DeleteRowsFrom_abort(_, _, _)
\* a third pass that gives up at the first row it cannot remove
DeleteRowsFrom_abort(table, idxs, fails) ==
    IF idxs = <<>> THEN table
    ELSE LET row_idx == Head(idxs)
         IN IF row_idx \in fails THEN table
            ELSE DeleteRowsFrom_abort(SubSeq(table, 1, row_idx - 1) \o
                                      SubSeq(table, row_idx + 1, Len(table)),
                                      Tail(idxs), fails)

RECURSIVE DeleteRowsFrom(_, _, _)
\* third pass, utils.py 534-540: idxs is sorted(rows_to_delete, reverse=True),
\* fails the rows for which tbl.remove raises; the handler at 539-540 goes on
\* with the next row
DeleteRowsFrom(table, idxs, fails) ==
    IF idxs = <<>> THEN table
    ELSE LET row_idx == Head(idxs)
         IN IF row_idx \in fails THEN DeleteRowsFrom(table, Tail(idxs), fails)
            ELSE DeleteRowsFrom(SubSeq(table, 1, row_idx - 1) \o
                                SubSeq(table, row_idx + 1, Len(table)),
                                Tail(idxs), fails)

\* sorted(rows_to_delete, reverse=True); rows_to_delete is ascending
Reversed(seq) == [k \in 1..Len(seq) |-> seq[Len(seq) + 1 - k]]

(***************************************************************************)
(* Records handed to the renderer.                                         *)
(***************************************************************************)
\* a data-bearing experience with every field and one responsibility
FullExp(i) ==
    [company |-> <<"Acme">>, location |-> <<"NYC">>,
     role |-> <<"Eng">> \o Digits(i), duration |-> <<"JAN", SP, "2020">>,
     responsibilities |-> <<<<"Did", SP, "A">> \o Digits(i)>>]

\* a data-bearing experience with a blank location and no responsibility
BareExp(i) ==
    [company |-> <<"Beta">>, location |-> <<SP>>,
     role |-> <<"QA">> \o Digits(i), duration |-> <<>>,
     responsibilities |-> <<>>]

\* an experience without a role, as the validator leaves it (no location key)
NoRoleExp(i) ==
    [company |-> <<"Gamma">>, role |-> <<>>, duration |-> <<"2019">>,
     responsibilities |-> <<<<"Did", SP, "B">>>>]

ExpKinds == {"full", "bare", "norole"}

ExpOfKind(kind, i) ==
    IF kind = "full" THEN FullExp(i)
    ELSE IF kind = "bare" THEN BareExp(i)
    ELSE NoRoleExp(i)

\* the lists of experiences: every list of at most MaxExps entries, and the
\* lists that reach and exceed the capacity of the vocabulary
ExperienceLists ==
    {[i \in 1..Len(ks) |-> ExpOfKind(ks[i], i)] :
        ks \in UNION {[1..n -> ExpKinds] : n \in 0..MaxExps}}
    \cup {[i \in 1..n |-> FullExp(i)] : n \in {ExpSlots, ExpSlots + 1}}

Scalars ==
    [candidate_name |-> <<"Jane", SP, "Doe">>, position |-> <<"Engineer">>,
     total_experience_years |-> <<"1", "1">>, phone |-> <<>>,
     email |-> <<"jane@example.com">>, intro_paragraph |-> <<"Summary">>]

RestFull ==
    [education |-> <<[institution |-> <<"MIT">>, duration |-> <<"2015", SP, "to", SP, "2019">>,
                      degree |-> <<"BS">>]>>,
     certifications |-> <<[name |-> <<"PMP">>, year |-> <<"2023">>,
                           provider |-> <<"PMI">>, location |-> <<>>]>>,
     technical_skills |-> <<<<"SQL">>, <<"Go">>>>,
     language_skills |-> <<EnglishFluent, <<"French">>>>]

RestBlank ==
    [education |-> <<[institution |-> <<"MIT">>, duration |-> <<>>, degree |-> <<>>]>>,
     certifications |-> <<[name |-> <<"PMP">>, year |-> <<SP>>,
                           provider |-> <<>>, location |-> <<"Boston">>]>>,
     technical_skills |-> <<<<"SQL">>>>,
     language_skills |-> <<EnglishFluent>>]

\* no education, no certification, and no technical_skills key
RestEmpty ==
    [education |-> <<>>, certifications |-> <<>>, language_skills |-> <<EnglishFluent>>]

Merge(f, g) == [k \in DOMAIN f \cup DOMAIN g |-> IF k \in DOMAIN f THEN f[k] ELSE g[k]]

MakeRecord(exps, rest) == Merge([experiences |-> exps], Merge(Scalars, rest))

\* a record whose phone text reads like the bold-open marker
MarkerPhone(rec) == [rec EXCEPT !.phone = <<BOLD>>]

Records ==
    {MakeRecord(exps, RestFull) : exps \in ExperienceLists}
    \cup {MakeRecord(exps, rest) :
            exps \in {<<>>, <<FullExp(1)>>}, rest \in {RestBlank, RestEmpty}}
    \cup {MarkerPhone(MakeRecord(<<FullExp(1)>>, RestFull))}

(***************************************************************************)
(* Templates.                                                              *)
(***************************************************************************)
T(name) == ScalarTok(name)

ParaPool ==
    << <<"Name:", SP>> \o T("CANDIDATE_NAME"),
       ExpTok(1, "_COMPANY") \o <<SP, Dash, SP>> \o ExpTok(1, "_ROLE"),
       ExpTok(1, "_COMPANY") \o <<",", SP>> \o ExpTok(1, "_LOCATION")
           \o <<SP>> \o ExpTok(1, "_DURATION"),
       <<Bullet, SP>> \o RespTok(1, 1),
       <<Bullet, SP>> \o RespTok(1, 2),
       <<Dash, SP>> \o RespTok(1, 2) \o RespTok(1, 100),
       ExpTok(2, "_COMPANY") \o <<SP>> \o ExpTok(2, "_DURATION"),
       ExpTok(2, "_LOCATION"),
       <<Dash, SP>> \o RespTok(2, 1),
       EduTok(1, "_DEGREE") \o <<SP>> \o EduTok(1, "_DURATION"),
       <<"Cert:", SP>> \o CertTok(1, "_NAME") \o <<SP>> \o CertTok(1, "_YEAR")
           \o <<SP>> \o CertTok(1, "_PROVIDER") \o <<SP>> \o CertTok(1, "_LOCATION"),
       <<Bullet, SP>> \o CertTok(2, "_NAME"),
       EduTok(1, "_INSTITUTION") \o <<SP>> \o ExpTok(2, "_ROLE"),
       EduTok(2, "_INSTITUTION") \o EduTok(5, "_DEGREE") \o CertTok(10, "_YEAR"),
       T("TECHNICAL_SKILLS_LIST"),
       T("LANGUAGE_SKILLS_LIST") \o <<SP>> \o T("POSITION"),
       <<Dash, SP>> \o T("PHONE"),
       <<"Experience">>,
       T("EMAIL") \o T("INTRO_PARAGRAPH") \o T("TOTAL_EXPERIENCE_YEARS"),
       ExpTok(3, "_ROLE") \o <<SP>> \o RespTok(3, 1),
       ExpTok(ExpSlots, "_COMPANY") \o <<SP>> \o ExpTok(ExpSlots, "_ROLE")
           \o <<SP>> \o ExpTok(ExpSlots, "_LOCATION"),
       ExpTok(ExpSlots, "_COMPANY") \o <<SP>> \o ExpTok(ExpSlots - 1, "_COMPANY"),
       ExpTok(1, "_COMPANY") \o <<":", SP>> \o RespTok(1, 1) \o <<SP>> \o RespTok(1, 3) >>

\* a table row keyed to experience slot n: one cell, heading and bullet
ExpRow(n) ==
    << << TemplatePara(ExpTok(n, "_COMPANY") \o <<SP, Dash, SP>> \o ExpTok(n, "_ROLE")),
          TemplatePara(RespTok(n, 1)) >> >>

RowPool ==
    << ExpRow(1), ExpRow(2), ExpRow(3),
       << << TemplatePara(<<"Where:", SP>> \o ExpTok(2, "_LOCATION")) >> >>,
       << << TemplatePara(<<"Skills">>) >>,
          << TemplatePara(T("TECHNICAL_SKILLS_LIST")), TemplatePara(<<"Languages">>),
             TemplatePara(T("LANGUAGE_SKILLS_LIST")) >> >>,
       << << TemplatePara(<<Bullet, SP>> \o CertTok(1, "_NAME")),
             TemplatePara(<<Dash, SP>> \o T("PHONE")) >>,
          << TemplatePara(<<Dash, SP>> \o RespTok(1, 2)),
             TemplatePara(EduTok(1, "_DEGREE") \o <<SP>> \o EduTok(2, "_DEGREE")) >> >>,
       << << TemplatePara(ExpTok(1, "_LOCATION") \o <<SP>> \o ExpTok(1, "_DURATION")) >>,
          << TemplatePara(<<"Contact">>) >> >>,
       << << TemplatePara(ExpTok(ExpSlots, "_ROLE")),
             TemplatePara(EduTok(1, "_INSTITUTION") \o <<SP>> \o ExpTok(2, "_LOCATION")) >> >> >>

\* the runs of at most n consecutive members of a pool
Windows(pool, n) ==
    {SubSeq(pool, w[1], w[1] + w[2] - 1) :
        w \in {w \in (1..Len(pool)) \X (0..n) : w[1] + w[2] - 1 <= Len(pool)}}

ParagraphLists ==
    {[k \in 1..Len(w) |-> TemplatePara(w[k])] : w \in Windows(ParaPool, MaxParas)}

Tables == Windows(RowPool, MaxRows) \ {<<>>}

\* templates of paragraphs only, of one table only, and of one paragraph
\* followed by two one-row tables
Templates ==
    {[paragraphs |-> ps, tables |-> <<>>] : ps \in ParagraphLists}
    \cup {[paragraphs |-> <<>>, tables |-> <<t>>] : t \in Tables}
    \cup {[paragraphs |-> <<TemplatePara(ParaPool[k])>>,
           tables |-> << <<RowPool[((k - 1) % Len(RowPool)) + 1]>>,
                         <<RowPool[(k % Len(RowPool)) + 1]>> >>] :
            k \in 1..Len(ParaPool)}

\* the template with every paragraph named by its place
WithIds(document) ==
    [paragraphs |-> [k \in 1..Len(document.paragraphs) |->
                        [document.paragraphs[k] EXCEPT !.id = <<0, 0, 0, k>>]],
     tables |-> [t \in 1..Len(document.tables) |->
                   [r \in 1..Len(document.tables[t]) |->
                      [c \in 1..Len(document.tables[t][r]) |->
                         [k \in 1..Len(document.tables[t][r][c]) |->
                            [document.tables[t][r][c][k] EXCEPT !.id = <<t, r, c, k>>]]]]]]

(***************************************************************************)
(* Record validator (extraction.py 140-233).  A decoded JSON value carries *)
(* its Python type; a mapping is a record over the keys the code asks for, *)
(* holding Absent at a key the mapping does not have.  The text of a name  *)
(* or of a duration is a sequence of characters.                           *)
(***************************************************************************)
Absent == <<"absent">>
None == <<"null">>
Str(s) == <<"str", s>>
Num(n) == <<"int", n>>
List(xs) == <<"list", xs>>
Dict(f) == <<"dict", f>>

\* type(x), and the content of a value that has one
Tag(x) == x[1]
Val(x) == x[2]

\* key in mapping
HasKey(f, key) == f[key] # Absent

\* mapping.get(key)
GetValue(f, key) == IF HasKey(f, key) THEN f[key] ELSE None

\* bool(x)
Truthy(x) ==
    IF Tag(x) = "str" \/ Tag(x) = "list" THEN Val(x) # <<>>
    ELSE IF Tag(x) = "int" THEN Val(x) # 0
    ELSE IF Tag(x) = "dict" THEN \E key \in DOMAIN Val(x) : HasKey(Val(x), key)
    ELSE FALSE

Ok(x) == [err |-> "None", val |-> x]
\* an exception, and the value as the code had changed it by then
Raise(e, x) == [err |-> e, val |-> x]

\* format_name(x) of a decoded value: "" when falsy (utils.py 121-122),
\* AttributeError at x.split() when x is no text (utils.py 125)
FormatNameOf(x) ==
    IF ~Truthy(x) THEN Ok(Str(<<>>))
    ELSE IF Tag(x) = "str" THEN Ok(Str(format_name(Val(x))))
    ELSE Raise("AttributeError", x)

\* format_duration called with the flag set whatever the position of the entry
FormatDurationOf_always_first(x, is_first_experience) ==
    IF ~Truthy(x) THEN Ok(Str(<<>>))
    ELSE IF Tag(x) = "str" THEN Ok(Str(format_duration(Val(x), TRUE)))
    ELSE Raise("TypeError", x)

\* format_duration(x, first) of a decoded value: "" when falsy (utils.py
\* 87-88), TypeError at the "in" test or at re.split when x is no text
FormatDurationOf(x, is_first_experience) ==
    IF ~Truthy(x) THEN Ok(Str(<<>>))
    ELSE IF Tag(x) = "str" THEN Ok(Str(format_duration(Val(x), is_first_experience)))
    ELSE Raise("TypeError", x)

NameNotProvided == <<"C", "a", "n", "d", "i", "d", "a", "t", "e", " ", "N", "a", "m", "e", " ", "N", "o", "t", " ", "P", "r", "o", "v", "i", "d", "e", "d">>

\* the key names of the entries, as texts
KeyText ==
    [company |-> <<"c", "o", "m", "p", "a", "n", "y">>, location |-> <<"l", "o", "c", "a", "t", "i", "o", "n">>, role |-> <<"r", "o", "l", "e">>,
     duration |-> <<"d", "u", "r", "a", "t", "i", "o", "n">>, responsibilities |-> <<"r", "e", "s", "p", "o", "n", "s", "i", "b", "i", "l", "i", "t", "i", "e", "s">>,
     institution |-> <<"i", "n", "s", "t", "i", "t", "u", "t", "i", "o", "n">>, degree |-> <<"d", "e", "g", "r", "e", "e">>, name |-> <<"n", "a", "m", "e">>,
     year |-> <<"y", "e", "a", "r">>, provider |-> <<"p", "r", "o", "v", "i", "d", "e", "r">>]

\* the keys of a mapping, as the texts a loop over the mapping yields (in
\* some order: what the loops do with a text does not depend on it)
KeysOf(f) ==
    LET present == {key \in DOMAIN f : HasKey(f, key)}
        ordered == CHOOSE seq \in [1..Cardinality(present) -> present] :
                       \A i, j \in 1..Cardinality(present) : i # j => seq[i] # seq[j]
    IN [k \in 1..Cardinality(present) |-> Str(KeyText[ordered[k]])]

\* iter(x) raises TypeError
NotIterable(x) == Tag(x) \in {"null", "int"}

\* list(x) of an iterable value: the entries of a list, the characters of a
\* text, the keys of a mapping
Items(x) ==
    IF Tag(x) = "list" THEN Val(x)
    ELSE IF Tag(x) = "str" THEN [k \in 1..Len(Val(x)) |-> Str(<<Val(x)[k]>>)]
    ELSE IF Tag(x) = "dict" THEN KeysOf(Val(x))
    ELSE <<>>

\* key in entry, for an entry that is a mapping, a text or a list
InEntry(key, entry) ==
    IF Tag(entry) = "dict" THEN HasKey(Val(entry), key)
    ELSE IF Tag(entry) = "str" THEN Contains(Val(entry), KeyText[key])
    ELSE \E k \in 1..Len(Val(entry)) : Val(entry)[k] = Str(KeyText[key])

\* extraction.py 162-166: one pass of the formatting loop, i counted from 0
FormatExperience(exp, i) ==
    IF NotIterable(exp) THEN Raise("TypeError", exp)
    ELSE IF Tag(exp) # "dict"
    THEN \* exp["role"] and exp["duration"] of a text or a list
         IF InEntry("role", exp) \/ InEntry("duration", exp)
         THEN Raise("TypeError", exp) ELSE Ok(exp)
    ELSE LET role == IF HasKey(Val(exp), "role") THEN FormatNameOf(Val(exp).role)
                     ELSE Ok(Absent)
             duration == IF HasKey(Val(exp), "duration")
                         THEN FormatDurationOf(Val(exp).duration, i = 0)
                         ELSE Ok(Absent)
         IN IF role.err # "None" THEN Raise(role.err, exp)
            ELSE IF duration.err # "None"
            THEN Raise(duration.err, Dict([Val(exp) EXCEPT !.role = role.val]))
            ELSE Ok(Dict([Val(exp) EXCEPT !.role = role.val, !.duration = duration.val]))

\* "key not in entry or not entry[key]" of a mapping
Lacks(f, key) == ~HasKey(f, key) \/ ~Truthy(f[key])

\* extraction.py 170-177: one pass of the loop that fills the fields in; an
\* entry that is no mapping fails at the test or at the assignment
EnsureExperience(exp) ==
    IF Tag(exp) # "dict" THEN Raise("TypeError", exp)
    ELSE Ok(Dict([key \in DOMAIN Val(exp) |->
            IF key \in {"company", "role", "duration"}
            THEN (IF Lacks(Val(exp), key) THEN Str(<<>>) ELSE Val(exp)[key])
            ELSE IF key = "responsibilities"
            THEN (IF ~HasKey(Val(exp), key) \/ Tag(Val(exp)[key]) # "list" THEN List(<<>>)
                  ELSE Val(exp)[key])
            ELSE Val(exp)[key]]))

\* extraction.py 189-197
EnsureEducation(edu) ==
    IF Tag(edu) # "dict" THEN Raise("TypeError", edu)
    ELSE LET duration == IF Lacks(Val(edu), "duration") THEN Ok(Str(<<>>))
                         ELSE FormatDurationOf(Val(edu).duration, FALSE)
             institution == IF Lacks(Val(edu), "institution") THEN Str(<<>>)
                            ELSE Val(edu).institution
         IN IF duration.err # "None"
            THEN Raise(duration.err, Dict([Val(edu) EXCEPT !.institution = institution]))
            ELSE Ok(Dict([key \in DOMAIN Val(edu) |->
                    IF key = "duration" THEN duration.val
                    ELSE IF Lacks(Val(edu), key) THEN Str(<<>>) ELSE Val(edu)[key]]))

\* extraction.py 209-216
EnsureCertification(cert) ==
    IF Tag(cert) # "dict" THEN Raise("TypeError", cert)
    ELSE Ok(Dict([key \in DOMAIN Val(cert) |->
            IF Lacks(Val(cert), key) THEN Str(<<>>) ELSE Val(cert)[key]]))

\* extraction.py 153, testing for the key only
LanguagesMissing_key_only(data) == ~HasKey(data, "language_skills")

\* extraction.py 153
LanguagesMissing(data) ==
    ~HasKey(data, "language_skills") \/ ~Truthy(data.language_skills)

\* extraction.py 220-233
get_empty_data ==
    [candidate_name |-> Str(<<>>), position |-> Str(<<>>), education |-> List(<<>>),
     total_experience_years |-> Str(<<>>), phone |-> Str(<<>>), email |-> Str(<<>>),
     intro_paragraph |-> Str(<<>>), experiences |-> List(<<>>),
     technical_skills |-> List(<<>>), certifications |-> List(<<>>),
     language_skills |-> List(<<Str(EnglishFluent)>>)]

(***************************************************************************)
(* Decoded records handed to the validator.                                *)
(***************************************************************************)
ExpEntry(company, location, role, duration, responsibilities) ==
    Dict([company |-> company, location |-> location, role |-> role,
          duration |-> duration, responsibilities |-> responsibilities])

EduEntry(institution, duration, degree) ==
    Dict([institution |-> institution, duration |-> duration, degree |-> degree])

CertEntry(name, year, provider, location) ==
    Dict([name |-> name, year |-> year, provider |-> provider, location |-> location])

\* an entry with every field, one with the company only, one whose fields
\* are empty or of another type, entries whose role or duration is a number,
\* a single-date duration, and entries that are no mapping
ExpEntries ==
    {ExpEntry(Str(<<"Acme">>), Str(<<"NYC">>), Str(<<"S", "E", "N", "I", "O", "R", " ", "D", "E", "V">>),
              Str(<<"S", "e", "p", " ", "2", "0", "1", "5", " ", "-", " ", "O", "c", "t", " ", "2", "0", "1", "6">>), List(<<Str(<<"Did", SP, "A">>)>>)),
     ExpEntry(Str(<<"Acme">>), Absent, Absent, Absent, Absent),
     ExpEntry(None, Absent, Num(0), List(<<>>), Str(<<"Did", SP, "A">>)),
     ExpEntry(Str(<<"Acme">>), Str(<<"NYC">>), Num(5), Absent, List(<<>>)),
     ExpEntry(Str(<<"Acme">>), Str(<<"NYC">>), Str(<<"D", "e", "v">>), Num(2020), List(<<>>)),
     ExpEntry(Num(7), None, Str(<<"D", "e", "v">>), Str(<<"2", "0", "1", "9">>), Absent),
     Str(<<"r", "o", "l", "e">>),
     None,
     List(<<>>)}

EduEntries ==
    {EduEntry(Str(<<"MIT">>), Str(<<"2", "0", "1", "5", " ", "-", " ", "2", "0", "1", "9">>), Str(<<"BS">>)),
     EduEntry(Str(<<"MIT">>), Absent, Absent),
     EduEntry(None, Num(3), Num(0)),
     EduEntry(Absent, Str(<<"2", "0", "1", "9">>), List(<<>>)),
     Str(<<"M", "I", "T">>),
     None}

CertEntries ==
    {CertEntry(Str(<<"PMP">>), Str(<<"2023">>), Str(<<"PMI">>), Str(<<"Boston">>)),
     CertEntry(Str(<<"PMP">>), Absent, Absent, Absent),
     CertEntry(None, Num(2020), Str(<<>>), List(<<>>)),
     None}

\* a record with every field as the extraction prompt asks for it
WellFormed ==
    [candidate_name |-> Str(<<"J", "A", "N", "E", " ", "D", "O", "E">>), position |-> Str(<<"Q", "A", " ", "L", "E", "A", "D">>),
     education |-> List(<<EduEntry(Str(<<"MIT">>), Str(<<"2", "0", "1", "5", " ", "-", " ", "2", "0", "1", "9">>), Str(<<"BS">>))>>),
     total_experience_years |-> Str(<<"1", "1">>), phone |-> Str(<<>>),
     email |-> Str(<<"jane@example.com">>), intro_paragraph |-> Str(<<"Summary">>),
     experiences |-> List(<<ExpEntry(Str(<<"Acme">>), Str(<<"NYC">>), Str(<<"D", "e", "v">>),
                                     Str(<<"J", "a", "n", " ", "2", "0", "2", "0", " ", "-", " ", "P", "r", "e", "s", "e", "n", "t">>), List(<<>>))>>),
     technical_skills |-> List(<<Str(<<"SQL">>)>>),
     certifications |-> List(<<CertEntry(Str(<<"PMP">>), Str(<<"2023">>),
                                         Str(<<"PMI">>), Str(<<>>))>>),
     language_skills |-> List(<<Str(<<"French">>)>>)]

\* values a field may decode to instead of the value asked for
OddValues ==
    {Absent, None, Str(<<>>), Str(<<"a", "b">>), Str(NameNotProvided), Num(0), Num(7),
     List(<<>>), List(<<Str(<<"a", "b">>)>>),
     ExpEntry(Absent, Absent, Absent, Absent, Absent),
     ExpEntry(Str(<<"Acme">>), Absent, Absent, Absent, Absent)}

VariedKeys ==
    {"candidate_name", "position", "language_skills", "experiences", "education",
     "certifications", "technical_skills"}

\* the sequences of at most MaxEntries members of a pool
ListsOf(pool) == UNION {[1..n -> pool] : n \in 0..MaxEntries}

RawRecords ==
    {[WellFormed EXCEPT ![key] = x] : key \in VariedKeys, x \in OddValues}
    \cup {[WellFormed EXCEPT !.experiences = List(xs)] : xs \in ListsOf(ExpEntries)}
    \cup {[WellFormed EXCEPT !.education = List(xs)] : xs \in ListsOf(EduEntries)}
    \cup {[WellFormed EXCEPT !.certifications = List(xs)] : xs \in ListsOf(CertEntries)}

(***************************************************************************)
(* fill_template as a state machine (utils.py 182-542).                    *)
(***************************************************************************)
VARIABLES
    template,               \* the document as it was passed in
    d,                      \* the record
    doc,                    \* the document being filled in place
    pc,                     \* position in fill_template
    experiences_with_data,  \* utils.py 196
    pidx,                   \* position of the paragraph loop (1-based)
    paragraphs_to_remove,   \* positions queued at utils.py 329, 337
    tidx,                   \* position of the table loop
    ridx,                   \* position of the second pass over the rows
    rows_to_delete,         \* utils.py 389
    unremovable,            \* the rows <<table, row>> for which tbl.remove raises
    warnings,               \* the rows named by st.warning at utils.py 540
    returned,               \* the object fill_template returned
    raw,                    \* the decoded mapping as _validate_data received it
    data,                   \* the mapping _validate_data works on in place
    vpc,                    \* position in _validate_data
    vi,                     \* position of the loop under way (1-based)
    exc,                    \* the exception raised, "None" when none
    name_in,                \* the text given to format_name
    formatted,              \* format_name(name)
    reformatted,            \* format_name(format_name(name))
    fpc,                    \* how often format_name has been applied
    date_str,               \* the text given to format_date
    date_ret,               \* what format_date returned
    dpc,                    \* position of the call of format_date
    duration_str,           \* the text given to format_duration
    is_first_experience,    \* the flag given to format_duration
    duration_ret,           \* what format_duration returned
    upc,                    \* position of the call of format_duration
    file_str,               \* the argument of safe_filename
    file_ret,               \* what safe_filename returned
    file_again,             \* what safe_filename returned for its own result
    spc,                    \* position of the calls of safe_filename
    cvs,                    \* the uploaded files
    tpl_bytes,              \* st.session_state.tpl_bytes
    render_raises,          \* the entries for which the try at 578-594 raises
    xi,                     \* position of the extraction loop (1-based)
    extracted_data,         \* st.session_state.extracted_data
    gi,                     \* position of the generation loop (1-based)
    converted,              \* streamlit_app.py 572
    converted_cvs,          \* st.session_state.converted_cvs
    errors,                 \* the st.warning and st.error calls of the loops
    bpc,                    \* position in the batch
    processing_stage,       \* st.session_state.processing_stage
    pending_formation_bio,  \* st.session_state.pending_formation_bio
    pending_education,      \* st.session_state.pending_education
    conversion_done         \* st.session_state.conversion_done

fillVars ==
    <<template, d, doc, pc, experiences_with_data, pidx, paragraphs_to_remove,
      tidx, ridx, rows_to_delete, unremovable, warnings, returned>>

valVars == <<raw, data, vpc, vi, exc>>

fmtVars == <<name_in, formatted, reformatted, fpc>>

dateVars == <<date_str, date_ret, dpc>>

durVars == <<duration_str, is_first_experience, duration_ret, upc>>

\* the state of the operations modelled further down
fileVars == <<file_str, file_ret, file_again, spc>>

batchVars ==
    <<cvs, tpl_bytes, render_raises, xi, extracted_data, gi, converted, converted_cvs,
      errors, bpc>>

\* the session state of main() beside the lists of the batch
sessVars == <<processing_stage, pending_formation_bio, pending_education, conversion_done>>

restVars == <<dateVars, durVars, fileVars, batchVars, sessVars>>

vars == <<fillVars, valVars, fmtVars, restVars>>

\* the call: doc is the document passed in, d the record
FillCall ==
    /\ doc = template
    /\ pc = "resolve"
    /\ experiences_with_data = {}
    /\ pidx = 1
    /\ paragraphs_to_remove = {}
    /\ tidx = 1
    /\ ridx = 1
    /\ rows_to_delete = <<>>
    /\ warnings = <<>>
    /\ returned = "None"

\* every row of the document can be removed
FillInit ==
    /\ d \in Records
    /\ template \in {WithIds(t) : t \in Templates}
    /\ unremovable = {}
    /\ FillCall

\* the rows a table of the model can have
RowPlaces == {1, 2} \X (1..MaxRows)

\* a document with a table of which one row cannot be removed, or none can;
\* the records have no experience, one, or two of which one has no role
FailingInit ==
    /\ d \in {MakeRecord(exps, RestFull) :
                exps \in {<<>>, <<FullExp(1)>>, <<FullExp(1), NoRoleExp(2)>>,
                          <<NoRoleExp(1), FullExp(2)>>}}
    /\ template \in {WithIds(t) : t \in {t \in Templates : t.tables # <<>>}}
    /\ unremovable \in {{place} : place \in RowPlaces} \cup {RowPlaces}
    /\ FillCall

\* utils.py 185-311: the mapping is a function of d, see all_repl
Resolve ==
    /\ pc = "resolve"
    /\ experiences_with_data' = ExperiencesWithData(d)
    /\ pc' = "paragraphs"
    /\ UNCHANGED <<template, d, doc, pidx, paragraphs_to_remove, tidx, ridx, rows_to_delete>>
    /\ UNCHANGED <<unremovable, warnings, returned, valVars, fmtVars, restVars>>

\* one iteration of the loop at utils.py 316-381
ProcessParagraph ==
    /\ pc = "paragraphs"
    /\ pidx <= Len(doc.paragraphs)
    /\ LET r == ProcessTopParagraph(doc.paragraphs[pidx], d)
       IN /\ doc' = [doc EXCEPT !.paragraphs[pidx] = r.para]
          /\ paragraphs_to_remove' =
                IF r.remove THEN paragraphs_to_remove \cup {pidx} ELSE paragraphs_to_remove
    /\ pidx' = pidx + 1
    /\ UNCHANGED <<template, d, pc, experiences_with_data, tidx, ridx, rows_to_delete>>
    /\ UNCHANGED <<unremovable, warnings, returned, valVars, fmtVars, restVars>>

\* utils.py 384-385
RemoveParagraphs ==
    /\ pc = "paragraphs"
    /\ pidx > Len(doc.paragraphs)
    /\ doc' = [doc EXCEPT !.paragraphs = RemoveIndices(doc.paragraphs, paragraphs_to_remove, 1)]
    /\ pc' = "tables"
    /\ UNCHANGED <<template, d, experiences_with_data, pidx, paragraphs_to_remove,
                   tidx, ridx, rows_to_delete>>
    /\ UNCHANGED <<unremovable, warnings, returned, valVars, fmtVars, restVars>>

\* first pass over the rows of table tidx, utils.py 389-401
ScanRows ==
    /\ pc = "tables"
    /\ tidx <= Len(doc.tables)
    /\ rows_to_delete' = RowsToDelete(doc.tables[tidx], experiences_with_data)
    /\ ridx' = 1
    /\ pc' = "cells"
    /\ UNCHANGED <<template, d, doc, experiences_with_data, pidx, paragraphs_to_remove, tidx>>
    /\ UNCHANGED <<unremovable, warnings, returned, valVars, fmtVars, restVars>>

\* one row of the second pass, utils.py 404-531
ProcessRow ==
    /\ pc = "cells"
    /\ ridx <= Len(doc.tables[tidx])
    /\ doc' = IF \E k \in 1..Len(rows_to_delete) : rows_to_delete[k] = ridx
              THEN doc
              ELSE LET row == doc.tables[tidx][ridx]
                   IN [doc EXCEPT !.tables[tidx][ridx] =
                          [c \in 1..Len(row) |-> ProcessCell(row[c], d)]]
    /\ ridx' = ridx + 1
    /\ UNCHANGED <<template, d, pc, experiences_with_data, pidx, paragraphs_to_remove,
                   tidx, rows_to_delete>>
    /\ UNCHANGED <<unremovable, warnings, returned, valVars, fmtVars, restVars>>

\* third pass, utils.py 534-540, and the step to the next table
DeleteRows ==
    /\ pc = "cells"
    /\ ridx > Len(doc.tables[tidx])
    /\ LET fails == {r \in 1..Len(doc.tables[tidx]) : <<tidx, r>> \in unremovable}
           warned == SelectSeq(Reversed(rows_to_delete), LAMBDA r : r \in fails)
       IN /\ doc' = [doc EXCEPT !.tables[tidx] =
                        DeleteRowsFrom(doc.tables[tidx], Reversed(rows_to_delete), fails)]
          /\ warnings' = warnings \o [k \in 1..Len(warned) |-> <<tidx, warned[k]>>]
    /\ tidx' = tidx + 1
    /\ pc' = "tables"
    /\ UNCHANGED <<template, d, experiences_with_data, pidx, paragraphs_to_remove,
                   ridx, rows_to_delete>>
    /\ UNCHANGED <<unremovable, returned, valVars, fmtVars, restVars>>

\* a return of a copy of the document
Return_copy ==
    /\ pc = "tables"
    /\ tidx > Len(doc.tables)
    /\ pc' = "done"
    /\ returned' = "copy"
    /\ UNCHANGED <<template, d, doc, experiences_with_data, pidx, paragraphs_to_remove,
                   tidx, ridx, rows_to_delete>>
    /\ UNCHANGED <<unremovable, warnings, valVars, fmtVars, restVars>>

\* utils.py 542: doc is the parameter, the function never binds the name anew
Return ==
    /\ pc = "tables"
    /\ tidx > Len(doc.tables)
    /\ pc' = "done"
    /\ returned' = "doc"
    /\ UNCHANGED <<template, d, doc, experiences_with_data, pidx, paragraphs_to_remove,
                   tidx, ridx, rows_to_delete>>
    /\ UNCHANGED <<unremovable, warnings, valVars, fmtVars, restVars>>

FillNext ==
    \/ Resolve
    \/ ProcessParagraph
    \/ RemoveParagraphs
    \/ ScanRows
    \/ ProcessRow
    \/ DeleteRows
    \/ Return

FillIdle ==
    /\ d = <<>>
    /\ template = <<>>
    /\ doc = <<>>
    /\ pc = "idle"
    /\ experiences_with_data = {}
    /\ pidx = 0
    /\ paragraphs_to_remove = {}
    /\ tidx = 0
    /\ ridx = 0
    /\ rows_to_delete = <<>>
    /\ unremovable = {}
    /\ warnings = <<>>
    /\ returned = "None"

(***************************************************************************)
(* _validate_data as a state machine (extraction.py 140-218), and the      *)
(* handler of extract that answers an exception (extraction.py 136-138).   *)
(***************************************************************************)
ValidateInit ==
    /\ raw \in RawRecords
    /\ data = raw
    /\ vpc = "name"
    /\ vi = 1
    /\ exc = "None"

ValidateIdle ==
    /\ raw = <<>>
    /\ data = <<>>
    /\ vpc = "idle"
    /\ vi = 0
    /\ exc = "None"

\* extraction.py 143-147
ValidateName ==
    /\ vpc = "name"
    /\ LET given == GetValue(data, "candidate_name")
           named == IF ~Truthy(given) \/ given = Str(NameNotProvided)
                    THEN [data EXCEPT !.candidate_name = Str(NameNotProvided)]
                    ELSE data
           r == FormatNameOf(named.candidate_name)
       IN IF r.err # "None"
          THEN data' = named /\ exc' = r.err /\ vpc' = "raised"
          ELSE data' = [named EXCEPT !.candidate_name = r.val]
               /\ exc' = exc /\ vpc' = "position"
    /\ UNCHANGED <<raw, vi, fillVars, fmtVars, restVars>>

\* extraction.py 149-150
ValidatePosition ==
    /\ vpc = "position"
    /\ LET r == IF HasKey(data, "position") THEN FormatNameOf(data.position)
                ELSE Ok(Absent)
       IN IF r.err # "None"
          THEN data' = data /\ exc' = r.err /\ vpc' = "raised"
          ELSE data' = [data EXCEPT !.position = r.val] /\ exc' = exc /\ vpc' = "languages"
    /\ UNCHANGED <<raw, vi, fillVars, fmtVars, restVars>>

\* extraction.py 153-154
DefaultLanguages ==
    /\ vpc = "languages"
    /\ data' = IF LanguagesMissing(data)
               THEN [data EXCEPT !.language_skills = List(<<Str(EnglishFluent)>>)]
               ELSE data
    /\ vpc' = "experiences"
    /\ UNCHANGED <<raw, vi, exc, fillVars, fmtVars, restVars>>

\* extraction.py 157-158
DefaultExperiences ==
    /\ vpc = "experiences"
    /\ data' = IF ~HasKey(data, "experiences")
               THEN [data EXCEPT !.experiences = List(<<>>)]
               ELSE data
    /\ vpc' = "format"
    /\ vi' = 1
    /\ UNCHANGED <<raw, exc, fillVars, fmtVars, restVars>>

\* one pass of the loop at extraction.py 161-166, or its end
FormatExperiences ==
    /\ vpc = "format"
    /\ LET xs == data.experiences
       IN IF NotIterable(xs)
          THEN data' = data /\ exc' = "TypeError" /\ vpc' = "raised" /\ vi' = vi
          ELSE IF vi > Len(Items(xs))
          THEN data' = data /\ exc' = exc /\ vpc' = "ensure" /\ vi' = 1
          ELSE LET r == FormatExperience(Items(xs)[vi], vi - 1)
               IN /\ data' = IF Tag(xs) = "list"
                             THEN [data EXCEPT !.experiences[2][vi] = r.val]
                             ELSE data
                  /\ IF r.err # "None"
                     THEN exc' = r.err /\ vpc' = "raised" /\ vi' = vi
                     ELSE exc' = exc /\ vpc' = vpc /\ vi' = vi + 1
    /\ UNCHANGED <<raw, fillVars, fmtVars, restVars>>

\* one pass of the loop at extraction.py 169-177, or its end
EnsureExperiences ==
    /\ vpc = "ensure"
    /\ LET xs == data.experiences
       IN IF vi > Len(Items(xs))
          THEN data' = data /\ exc' = exc /\ vpc' = "education" /\ vi' = 1
          ELSE LET r == EnsureExperience(Items(xs)[vi])
               IN /\ data' = IF Tag(xs) = "list"
                             THEN [data EXCEPT !.experiences[2][vi] = r.val]
                             ELSE data
                  /\ IF r.err # "None"
                     THEN exc' = r.err /\ vpc' = "raised" /\ vi' = vi
                     ELSE exc' = exc /\ vpc' = vpc /\ vi' = vi + 1
    /\ UNCHANGED <<raw, fillVars, fmtVars, restVars>>

\* extraction.py 180-185
DefaultEducation ==
    /\ vpc = "education"
    /\ data' = IF ~HasKey(data, "education") \/ Tag(data.education) # "list"
               THEN [data EXCEPT !.education = List(<<>>)]
               ELSE data
    /\ vpc' = "edu_entries"
    /\ vi' = 1
    /\ UNCHANGED <<raw, exc, fillVars, fmtVars, restVars>>

\* one pass of the loop at extraction.py 188-197, or its end
EnsureEducations ==
    /\ vpc = "edu_entries"
    /\ IF vi > Len(Val(data.education))
       THEN data' = data /\ exc' = exc /\ vpc' = "certifications" /\ vi' = 1
       ELSE LET r == EnsureEducation(Val(data.education)[vi])
            IN /\ data' = [data EXCEPT !.education[2][vi] = r.val]
               /\ IF r.err # "None"
                  THEN exc' = r.err /\ vpc' = "raised" /\ vi' = vi
                  ELSE exc' = exc /\ vpc' = vpc /\ vi' = vi + 1
    /\ UNCHANGED <<raw, fillVars, fmtVars, restVars>>

\* extraction.py 200-205
DefaultCertifications ==
    /\ vpc = "certifications"
    /\ data' = IF ~HasKey(data, "certifications") \/ Tag(data.certifications) # "list"
               THEN [data EXCEPT !.certifications = List(<<>>)]
               ELSE data
    /\ vpc' = "cert_entries"
    /\ vi' = 1
    /\ UNCHANGED <<raw, exc, fillVars, fmtVars, restVars>>

\* one pass of the loop at extraction.py 208-216, or the return at 218
EnsureCertifications ==
    /\ vpc = "cert_entries"
    /\ IF vi > Len(Val(data.certifications))
       THEN data' = data /\ exc' = exc /\ vpc' = "returned" /\ vi' = vi
       ELSE LET r == EnsureCertification(Val(data.certifications)[vi])
            IN /\ data' = [data EXCEPT !.certifications[2][vi] = r.val]
               /\ IF r.err # "None"
                  THEN exc' = r.err /\ vpc' = "raised" /\ vi' = vi
                  ELSE exc' = exc /\ vpc' = vpc /\ vi' = vi + 1
    /\ UNCHANGED <<raw, fillVars, fmtVars, restVars>>

\* extraction.py 136-138: extract answers the exception with the empty record
ExtractExcept ==
    /\ vpc = "raised"
    /\ data' = get_empty_data
    /\ vpc' = "fallback"
    /\ UNCHANGED <<raw, vi, exc, fillVars, fmtVars, restVars>>

ValidateNext ==
    \/ ValidateName
    \/ ValidatePosition
    \/ DefaultLanguages
    \/ DefaultExperiences
    \/ FormatExperiences
    \/ EnsureExperiences
    \/ DefaultEducation
    \/ EnsureEducations
    \/ DefaultCertifications
    \/ EnsureCertifications
    \/ ExtractExcept

(***************************************************************************)
(* format_name applied to a text, and again to its result.                 *)
(***************************************************************************)
JohnDoeCaps == <<"J", "O", "H", "N", " ", "D", "O", "E">>
JohnDoe == <<"J", "o", "h", "n", " ", "D", "o", "e">>

NameChars == {"A", "b", "1", SP, TAB}

\* the texts of at most MaxNameLen characters, and names as they are written
Names ==
    UNION {[1..n -> NameChars] : n \in 0..MaxNameLen}
    \cup {JohnDoeCaps, JohnDoe, <<"M", "c", "D", "o", "n", "a", "l", "d", " ", "S", "M", "I", "T", "H">>, <<" ", "J", "A", "N", "E", " ", " ", "D", "O", "E", " ">>, <<"J", ".", " ", "R", ".", " ", "T", "O", "L", "K", "I", "E", "N">>,
          <<"O", "-", "N", "E", "I", "L", " ", "x">>}

FormatInit ==
    /\ name_in \in Names
    /\ formatted = <<>>
    /\ reformatted = <<>>
    /\ fpc = "call"

FormatIdle ==
    /\ name_in = <<>>
    /\ formatted = <<>>
    /\ reformatted = <<>>
    /\ fpc = "idle"

FormatName ==
    /\ fpc = "call"
    /\ formatted' = format_name(name_in)
    /\ fpc' = "once"
    /\ UNCHANGED <<name_in, reformatted, fillVars, valVars, restVars>>

FormatNameAgain ==
    /\ fpc = "once"
    /\ reformatted' = format_name(formatted)
    /\ fpc' = "twice"
    /\ UNCHANGED <<name_in, formatted, fillVars, valVars, restVars>>

FormatNext ==
    \/ FormatName
    \/ FormatNameAgain

(***************************************************************************)
(* format_date as a call (utils.py 44-70).                                 *)
(***************************************************************************)
DateChars == {"a", "B", "1"}

\* the words of at most MaxWordLen characters: letters of either case and digits
DateWords == UNION {[1..n -> DateChars] : n \in 1..MaxWordLen}

DateSeps == {<<"-">>, <<SP>>, <<"/">>, <<TAB>>, <<",", SP>>, <<",">>, <<>>}

DateYears == {<<"2", "0", "1", "5">>, <<"2", "0", "1">>}

\* what stands before and behind the date
DateAffixes == {<<<<>>, <<>>>>, <<<<"1", "/", "2", "0", "1", "6", " ">>, <<>>>>, <<<<>>, <<" ", "x">>>>}

\* the terms of an open end as they are written, and texts close to them
PresentInputs ==
    PresentTerms
    \cup {upper(t) : t \in PresentTerms}
    \cup {capitalize(t) : t \in PresentTerms}
    \cup {<<" ", "p", "r", "e", "s", "e", "n", "t">>, <<"p", "r", "e", "s", "e", "n", "t", " ">>, <<"p", "r", "e", "s", "e", "n", "t", "l", "y">>, <<"t", "i", "l", "l", " ", " ", "d", "a", "t", "e">>, <<"N", "o", "w", " ", "2", "0", "1", "5">>}

Dates ==
    {a[1] \o w \o s \o y \o a[2] :
        a \in DateAffixes, w \in DateWords, s \in DateSeps, y \in DateYears}
    \cup PresentInputs
    \cup {<<>>, <<"S", "e", "p", "-", "2", "0", "1", "5">>, <<"J", "a", "n", "-", "2", "0", "2", "0">>, <<"S", "e", "p", "t", "e", "m", "b", "e", "r", " ", "2", "0", "1", "5">>, <<"S", "e", "p", "t", "e", "m", "b", "e", "r", ",", " ", "2", "0", "1", "5">>,
          <<"0", "9", "/", "2", "0", "1", "5">>, <<"1", "2", "-", "2", "0", "1", "5">>, <<"2", "0", "1", "5">>,
          <<"0", "/", "2", "0", "1", "5">>, <<"1", "3", "/", "2", "0", "1", "5">>, <<"0", "0", "-", "2", "0", "1", "5">>,
          <<"a", "B", "a", "-", "2", "0", "1", "5", "5">>, <<"1", "a", "B", "a", "-", "2", "0", "1", "5">>}

DateInit ==
    /\ date_str \in Dates
    /\ date_ret = <<>>
    /\ dpc = "call"

DateIdle ==
    /\ date_str = <<>>
    /\ date_ret = <<>>
    /\ dpc = "idle"

FormatDate ==
    /\ dpc = "call"
    /\ date_ret' = format_date(date_str)
    /\ dpc' = "done"
    /\ UNCHANGED <<date_str, fillVars, valVars, fmtVars, durVars, fileVars, batchVars, sessVars>>

DateNext == FormatDate

(***************************************************************************)
(* format_duration as a call (utils.py 85-117).                            *)
(***************************************************************************)
\* what stands on either side of a separator
DurationParts ==
    {<<>>, <<"S", "e", "p", " ", "2", "0", "1", "5">>, <<"s", "e", "p", "/", "2", "0", "1", "5">>, <<"S", "e", "p", "-", "2", "0", "1", "5">>, <<"9", "/", "2", "0", "1", "5">>, <<"2", "0", "1", "9">>, <<"n", "o", "w">>,
     <<"P", "r", "e", "s", "e", "n", "t">>, <<"D", "e", "c", " ", "2", "0", "2", "3">>, <<"S", "E", "P", "2", "0", "1", "5">>, <<"a", "b", "c">>}

DurationSeps == {<<"-">>, <<SP, "-", SP>>, <<EnDash>>, <<SP, EmDash, SP>>, <<"-", SP>>}

\* the parts and separators of the durations of three parts and more
LongParts == {<<"J", "a", "n", " ", "2", "0", "2", "0">>, <<"x">>}

LongSeps == {<<SP, "-", SP>>, <<EnDash>>}

\* blanks before and behind the duration
DurationPads == {<<<<>>, <<>>>>, <<<<SP>>, <<>>>>, <<<<>>, <<SP>>>>}

RECURSIVE Chain(_, _, _)
\* n parts with a separator between each two
Chain(n, parts, seps) ==
    IF n = 1 THEN parts
    ELSE {p \o s \o rest : p \in parts, s \in seps, rest \in Chain(n - 1, parts, seps)}

Durations ==
    {pad[1] \o t \o pad[2] :
        pad \in DurationPads,
        t \in Chain(1, DurationParts, DurationSeps)
              \cup Chain(2, DurationParts, DurationSeps)
              \cup UNION {Chain(n, LongParts, LongSeps) : n \in 3..MaxParts}}
    \cup {<<"S", "e", "p", "-", "2", "0", "1", "5", " ", "-", " ", "P", "r", "e", "s", "e", "n", "t">>, <<"J", "a", "n", " ", "2", "0", "2", "0", " ", "-", " ", "D", "e", "c", " ", "2", "0", "2", "3">>, <<"S", "e", "p", "t", "e", "m", "b", "e", "r", " ", "2", "0", "1", "5", "-", " ", "P", "r", "e", "s", "e", "n", "t">>,
          <<"S", "e", "p", " ", "2", "0", "1", "5", " ", "-", "P", "r", "e", "s", "e", "n", "t">>, <<"S", "e", "p", " ", "2", "0", "1", "5", " ", "-", " ", "p", "r", "e", "s", "e", "n", "t">>, <<"2", "0", "1", "5", " ", "t", "o", " ", "2", "0", "1", "9">>}

DurationInit ==
    /\ duration_str \in Durations
    /\ is_first_experience \in BOOLEAN
    /\ duration_ret = <<>>
    /\ upc = "call"

DurationIdle ==
    /\ duration_str = <<>>
    /\ is_first_experience = FALSE
    /\ duration_ret = <<>>
    /\ upc = "idle"

FormatDuration ==
    /\ upc = "call"
    /\ duration_ret' = format_duration(duration_str, is_first_experience)
    /\ upc' = "done"
    /\ UNCHANGED <<duration_str, is_first_experience, fillVars, valVars, fmtVars, dateVars,
                   fileVars, batchVars, sessVars>>

DurationNext == FormatDuration

(***************************************************************************)
(* safe_filename applied to a name, and again to its result (utils.py      *)
(* 544-545).                                                               *)
(***************************************************************************)
\* the characters of the class [\\/*?:"<>|]
UnsafeChars == {"\\", "/", "*", "?", ":", "\"", "<", ">", "|"}

OutputText == <<"o", "u", "t", "p", "u", "t">>

\* a sanitizer without the fallback
safe_filename_no_fallback(name) ==
    Strip([k \in 1..Len(name) |-> IF name[k] \in UnsafeChars THEN "_" ELSE name[k]])

\* re.sub(r'[\\/*?:"<>|]', "_", name).strip() or "output"
safe_filename(name) ==
    LET sub == [k \in 1..Len(name) |-> IF name[k] \in UnsafeChars THEN "_" ELSE name[k]]
    IN IF Strip(sub) # <<>> THEN Strip(sub) ELSE OutputText

FileChars == UnsafeChars \cup {"a", "_", SP}

\* the names of at most MaxFileLen characters, and file names as they are
\* written
FileNames ==
    UNION {[1..n -> FileChars] : n \in 0..MaxFileLen}
    \cup {<<"J", "a", "n", "e", " ", "D", "o", "e", ":", " ", "R", "e", "s", "u", "m", "e", ".", "d", "o", "c", "x">>, <<"J", "o", "h", "n", "/", "S", "m", "i", "t", "h", "\\", "R", "e", "s", "u", "m", "e", ".", "d", "o", "c", "x">>, <<"R", "e", "s", "u", "m", "e", "<", "2", "0", "2", "4", ">", ".", "d", "o", "c", "x">>,
          <<"J", "a", "n", "e", "_", "D", "o", "e", "_", "R", "e", "s", "u", "m", "e", ".", "d", "o", "c", "x">>, <<"J", "a", "n", "e", " ", "D", "o", "e", "_", "F", "o", "r", "m", "a", "t", "t", "e", "d", ".", "d", "o", "c", "x">>, OutputText,
          <<SP>> \o OutputText \o <<TAB>>, <<TAB, NL>>, <<" ", "a", "|", "b", "?", " ">>, <<"_", "F", "o", "r", "m", "a", "t", "t", "e", "d", ".", "d", "o", "c", "x">>}

FileInit ==
    /\ file_str \in FileNames
    /\ file_ret = <<>>
    /\ file_again = <<>>
    /\ spc = "call"

FileIdle ==
    /\ file_str = <<>>
    /\ file_ret = <<>>
    /\ file_again = <<>>
    /\ spc = "idle"

SafeFilename ==
    /\ spc = "call"
    /\ file_ret' = safe_filename(file_str)
    /\ spc' = "once"
    /\ UNCHANGED <<file_str, file_again, fillVars, valVars, fmtVars, dateVars, durVars,
                   batchVars, sessVars>>

SafeFilenameAgain ==
    /\ spc = "once"
    /\ file_again' = safe_filename(file_ret)
    /\ spc' = "twice"
    /\ UNCHANGED <<file_str, file_ret, fillVars, valVars, fmtVars, dateVars, durVars,
                   batchVars, sessVars>>

FileNext ==
    \/ SafeFilename
    \/ SafeFilenameAgain

(***************************************************************************)
(* The batch: the extraction loop over the uploaded files and the          *)
(* generation loop over the extracted records (streamlit_app.py 410-467    *)
(* and 571-606).  An upload is the outcome of its pass through the try at  *)
(* 427-467: the record extract returned, no text (extract_text returned    *)
(* ''), or an exception.  tpl_bytes is the template as stored; the record  *)
(* of an entry is written rec.                                             *)
(***************************************************************************)
BatchRecords ==
    {MakeRecord(<<FullExp(1)>>, RestFull),
     [MakeRecord(<<>>, RestBlank) EXCEPT !.candidate_name = <<"John", SP, "Roe">>]}

Uploads ==
    {[outcome |-> "text", rec |-> rec] : rec \in BatchRecords}
    \cup {[outcome |-> o, rec |-> <<>>] : o \in {"no_text", "raises"}}

BatchTemplates ==
    {[paragraphs |-> <<TemplatePara(ParaPool[1]), TemplatePara(ParaPool[2])>>, tables |-> <<>>],
     [paragraphs |-> <<TemplatePara(ParaPool[1])>>, tables |-> << <<ExpRow(1), ExpRow(2)>> >>]}

\* Document(BytesIO(tpl_bytes)): a document of new paragraph objects
Deserialize(bytes) == WithIds(bytes)

\* filled.save(buf): the content of the document, its objects left behind
Saved(document) ==
    [paragraphs |-> [k \in 1..Len(document.paragraphs) |->
                        [document.paragraphs[k] EXCEPT !.id = NewId]],
     tables |-> [t \in 1..Len(document.tables) |->
                   [r \in 1..Len(document.tables[t]) |->
                      [c \in 1..Len(document.tables[t][r]) |->
                         [k \in 1..Len(document.tables[t][r][c]) |->
                            [document.tables[t][r][c][k] EXCEPT !.id = NewId]]]]]]

BatchInit ==
    /\ cvs \in UNION {[1..n -> Uploads] : n \in 0..MaxBatch}
    /\ tpl_bytes \in BatchTemplates
    /\ render_raises \in {{}} \cup {{k} : k \in 1..MaxBatch}
    /\ xi = 1
    /\ extracted_data = <<>>
    /\ gi = 0
    /\ converted = <<>>
    /\ converted_cvs = <<>>
    /\ errors = <<>>
    /\ bpc = "extract"

BatchIdle ==
    /\ cvs = <<>>
    /\ tpl_bytes = <<>>
    /\ render_raises = {}
    /\ xi = 0
    /\ extracted_data = <<>>
    /\ gi = 0
    /\ converted = <<>>
    /\ converted_cvs = <<>>
    /\ errors = <<>>
    /\ bpc = "idle"

\* one pass of the loop at streamlit_app.py 424-467
ExtractFile ==
    /\ bpc = "extract"
    /\ xi <= Len(cvs)
    /\ extracted_data' =
          IF cvs[xi].outcome = "text"
          THEN Append(extracted_data,
                      [name |-> cvs[xi].rec.candidate_name, rec |-> cvs[xi].rec])
          ELSE extracted_data
    /\ errors' = IF cvs[xi].outcome = "text" THEN errors
                 ELSE Append(errors, <<"extract", xi>>)
    /\ xi' = xi + 1
    /\ UNCHANGED <<cvs, tpl_bytes, render_raises, gi, converted, converted_cvs, bpc>>
    /\ UNCHANGED <<fillVars, valVars, fmtVars, dateVars, durVars, fileVars, sessVars>>

\* the end of the extraction loop, and the button at streamlit_app.py 571-572
StartGeneration ==
    /\ bpc = "extract"
    /\ xi > Len(cvs)
    /\ converted' = <<>>
    /\ gi' = 1
    /\ bpc' = "generate"
    /\ UNCHANGED <<cvs, tpl_bytes, render_raises, xi, extracted_data, converted_cvs, errors>>
    /\ UNCHANGED <<fillVars, valVars, fmtVars, dateVars, durVars, fileVars, sessVars>>

\* a generation loop that parses the template once and fills that document
\* for every record
CallFillTemplate_shared ==
    /\ bpc = "generate"
    /\ gi <= Len(extracted_data)
    /\ template' = IF gi = 1 THEN Deserialize(tpl_bytes) ELSE doc
    /\ doc' = IF gi = 1 THEN Deserialize(tpl_bytes) ELSE doc
    /\ d' = extracted_data[gi].rec
    /\ pc' = "resolve"
    /\ experiences_with_data' = {}
    /\ pidx' = 1
    /\ paragraphs_to_remove' = {}
    /\ tidx' = 1
    /\ ridx' = 1
    /\ rows_to_delete' = <<>>
    /\ warnings' = <<>>
    /\ returned' = "None"
    /\ bpc' = "rendering"
    /\ UNCHANGED <<cvs, tpl_bytes, render_raises, xi, extracted_data, gi, converted,
                   converted_cvs, errors>>
    /\ UNCHANGED <<unremovable, valVars, fmtVars, dateVars, durVars, fileVars, sessVars>>

\* streamlit_app.py 579-582: fill_template is called with a document parsed
\* from tpl_bytes and the record of the entry
CallFillTemplate ==
    /\ bpc = "generate"
    /\ gi <= Len(extracted_data)
    /\ template' = Deserialize(tpl_bytes)
    /\ doc' = Deserialize(tpl_bytes)
    /\ d' = extracted_data[gi].rec
    /\ pc' = "resolve"
    /\ experiences_with_data' = {}
    /\ pidx' = 1
    /\ paragraphs_to_remove' = {}
    /\ tidx' = 1
    /\ ridx' = 1
    /\ rows_to_delete' = <<>>
    /\ warnings' = <<>>
    /\ returned' = "None"
    /\ bpc' = "rendering"
    /\ UNCHANGED <<cvs, tpl_bytes, render_raises, xi, extracted_data, gi, converted,
                   converted_cvs, errors>>
    /\ UNCHANGED <<unremovable, valVars, fmtVars, dateVars, durVars, fileVars, sessVars>>

\* streamlit_app.py 584-592: the document is saved and the entry appended
AppendConverted ==
    /\ bpc = "rendering"
    /\ pc = "done"
    /\ gi \notin render_raises
    /\ converted' = Append(converted, [name |-> extracted_data[gi].name,
                                       buffer |-> Saved(doc),
                                       rec |-> extracted_data[gi].rec])
    /\ gi' = gi + 1
    /\ bpc' = "generate"
    /\ UNCHANGED <<cvs, tpl_bytes, render_raises, xi, extracted_data, converted_cvs, errors>>
    /\ UNCHANGED <<fillVars, valVars, fmtVars, dateVars, durVars, fileVars, sessVars>>

\* a handler that gives the loop up
RenderExcept_break ==
    /\ bpc = "rendering"
    /\ gi \in render_raises
    /\ pc' = "raised"
    /\ errors' = Append(errors, <<"generate", gi>>)
    /\ gi' = Len(extracted_data) + 1
    /\ bpc' = "generate"
    /\ UNCHANGED <<template, d, doc, experiences_with_data, pidx, paragraphs_to_remove,
                   tidx, ridx, rows_to_delete, unremovable, warnings, returned>>
    /\ UNCHANGED <<cvs, tpl_bytes, render_raises, xi, extracted_data, converted, converted_cvs>>
    /\ UNCHANGED <<valVars, fmtVars, dateVars, durVars, fileVars, sessVars>>

\* streamlit_app.py 596-597: the try body raised, in fill_template or in the
\* save, for a record for which it does; the loop goes on
RenderExcept ==
    /\ bpc = "rendering"
    /\ gi \in render_raises
    /\ pc' = "raised"
    /\ errors' = Append(errors, <<"generate", gi>>)
    /\ gi' = gi + 1
    /\ bpc' = "generate"
    /\ UNCHANGED <<template, d, doc, experiences_with_data, pidx, paragraphs_to_remove,
                   tidx, ridx, rows_to_delete, unremovable, warnings, returned>>
    /\ UNCHANGED <<cvs, tpl_bytes, render_raises, xi, extracted_data, converted, converted_cvs>>
    /\ UNCHANGED <<valVars, fmtVars, dateVars, durVars, fileVars, sessVars>>

\* streamlit_app.py 602-604
FinishGeneration ==
    /\ bpc = "generate"
    /\ gi > Len(extracted_data)
    /\ converted_cvs' = converted
    /\ bpc' = "complete"
    /\ UNCHANGED <<cvs, tpl_bytes, render_raises, xi, extracted_data, gi, converted, errors>>
    /\ UNCHANGED <<fillVars, valVars, fmtVars, dateVars, durVars, fileVars, sessVars>>

BatchNext ==
    \/ ExtractFile
    \/ StartGeneration
    \/ CallFillTemplate
    \/ FillNext
    \/ AppendConverted
    \/ RenderExcept
    \/ FinishGeneration

\* main() has not run
SessionIdle ==
    /\ processing_stage = "idle"
    /\ pending_formation_bio = <<>>
    /\ pending_education = <<>>
    /\ conversion_done = FALSE

(***************************************************************************)
(* The specifications, one for each operation; the operations that are not *)
(* running rest.                                                           *)
(***************************************************************************)
IdleBut(op) ==
    /\ IF op = "fill_template" THEN TRUE ELSE FillIdle
    /\ IF op = "_validate_data" THEN TRUE ELSE ValidateIdle
    /\ IF op = "format_name" THEN TRUE ELSE FormatIdle
    /\ IF op = "format_date" THEN TRUE ELSE DateIdle
    /\ IF op = "format_duration" THEN TRUE ELSE DurationIdle
    /\ IF op = "safe_filename" THEN TRUE ELSE FileIdle
    /\ IF op = "batch" THEN TRUE ELSE BatchIdle
    /\ SessionIdle

Init == FillInit /\ IdleBut("fill_template")

Next == FillNext

Spec == Init /\ [][Next]_vars

InitValidate == ValidateInit /\ IdleBut("_validate_data")

InitFailing == FailingInit /\ IdleBut("fill_template")

SpecFailing == InitFailing /\ [][Next]_vars

SpecValidate == InitValidate /\ [][ValidateNext]_vars

InitFormat == FormatInit /\ IdleBut("format_name")

SpecFormat == InitFormat /\ [][FormatNext]_vars

InitDate == DateInit /\ IdleBut("format_date")

SpecDate == InitDate /\ [][DateNext]_vars

InitDuration == DurationInit /\ IdleBut("format_duration")

SpecDuration == InitDuration /\ [][DurationNext]_vars

InitFile == FileInit /\ IdleBut("safe_filename")

SpecFile == InitFile /\ [][FileNext]_vars

\* fill_template rests until the generation loop calls it
InitBatch == BatchInit /\ IdleBut("batch")

SpecBatch == InitBatch /\ [][BatchNext]_vars

(***************************************************************************)
(* Vocabulary of the properties.                                           *)
(***************************************************************************)
Done == pc = "done"

Range(seq) == {seq[k] : k \in 1..Len(seq)}

\* the texts of the top-level paragraphs of a document
TopTexts(document) == {ParaText(p) : p \in Range(document.paragraphs)}

\* the texts of the paragraphs in the table cells of a document
CellTexts(document) ==
    UNION {UNION {UNION {{ParaText(p) : p \in Range(cell)} : cell \in Range(row)} :
                     row \in Range(table)} : table \in Range(document.tables)}

\* data-bearing: the n-th experience exists, company and role are non-empty
DataBearing(rec, n) ==
    /\ n <= Len(rec.experiences)
    /\ rec.experiences[n].company # <<>>
    /\ rec.experiences[n].role # <<>>

SlotFieldLexemes == {"_COMPANY", "_ROLE", "_DURATION", "_LOCATION", "_RESP"}

\* the text holds a token of experience slot n
RefersToSlot(text, n) ==
    \E i \in 1..Len(text) :
        /\ MatchAt(text, <<Open, "EXP">> \o Digits(n), i)
        /\ i + 2 + Len(Digits(n)) <= Len(text)
        /\ text[i + 2 + Len(Digits(n))] \in SlotFieldLexemes

\* the text holds a token of an experience slot that has no data
RefersToEmptySlot(text, rec) ==
    \E n \in 1..ExpSlots : RefersToSlot(text, n) /\ ~DataBearing(rec, n)

\* positions of the members of a sequence of length n outside the set idxs
Survivors(n, idxs) == SelectSeq([k \in 1..n |-> k], LAMBDA k : k \notin idxs)

(***************************************************************************)
(* C1.  For every record and every template whose placeholders all lie in  *)
(* the declared vocabulary, in top-level paragraphs or in table cells, the *)
(* text of the document returned by fill_template contains no "{{" and no  *)
(* "}}".  Every template of the model stays inside the vocabulary.         *)
(***************************************************************************)
\* C1: on return no text of the document holds '{{' or '}}'.
C1_NoResidualToken ==
    Done => \A text \in TopTexts(doc) \cup CellTexts(doc) :
                Open \notin Range(text) /\ Close \notin Range(text)

(***************************************************************************)
(* C2.  After fill_template each table holds exactly those of its original *)
(* rows whose text references no experience slot in 1..20 that lacks a     *)
(* data-bearing experience, in their original order and filled; every row  *)
(* that references such a slot is removed.                                 *)
(***************************************************************************)
C2_KeptRows(table) ==
    SelectSeq([r \in 1..Len(table) |-> r],
              LAMBDA r : ~RefersToEmptySlot(get_row_text(table[r]), d))

\* C2: on return each table holds exactly its rows that reference no
\* experience slot without data, in their order and filled.
C2_RowsOfDataBearingSlotsOnly ==
    Done => \A t \in 1..Len(template.tables) :
                LET kept == C2_KeptRows(template.tables[t])
                IN /\ Len(doc.tables[t]) = Len(kept)
                   /\ \A k \in 1..Len(kept) :
                         LET row == template.tables[t][kept[k]]
                         IN doc.tables[t][k] = [c \in 1..Len(row) |-> ProcessCell(row[c], d)]

\* the paragraphs of a document, in the body and in the table cells
AllParas(document) ==
    Range(document.paragraphs) \cup
    UNION {UNION {UNION {Range(cell) : cell \in Range(row)} : row \in Range(table)} :
              table \in Range(document.tables)}

\* the paragraph object with this id is still in the document
Present(id) == \E q \in AllParas(doc) : q.id = id

\* the text the paragraph object with this id shows in the document
ShownAs(id, text) == \E q \in AllParas(doc) : q.id = id /\ ParaText(q) = text

(***************************************************************************)
(* C3.  In paragraph scope a top-level paragraph holding any token of      *)
(* experience slot n (COMPANY, ROLE, DURATION, LOCATION, RESP1..100) is    *)
(* removed whenever the record has no data-bearing experience at slot n;   *)
(* data-bearing (the n-th experience exists, company and role non-empty)   *)
(* is the only thing that decides section removal: a paragraph that holds  *)
(* no token that line deletion could blank is removed only for an          *)
(* experience slot without data.                                           *)
(***************************************************************************)
C3_CanBlank(text) == Range(text) \cap {"_RESP", "EDU", "CERT"} # {}

\* C3: once the paragraph loop is over, every top-level paragraph of a slot
\* without data is gone, and a paragraph that line deletion cannot blank is
\* gone only for such a slot.
C3_SectionRemoval ==
    pc \in {"tables", "cells", "done"} =>
        \A p \in Range(template.paragraphs) :
            LET text == ParaText(p)
            IN /\ RefersToEmptySlot(text, d) => ~Present(p.id)
               /\ (~Present(p.id) /\ ~C3_CanBlank(text)) => RefersToEmptySlot(text, d)

\* a paragraph of a slot whose experience exists but has no role was removed
C3_Witness ==
    /\ Done
    /\ \E p \in Range(template.paragraphs), n \in 1..ExpSlots :
          /\ RefersToSlot(ParaText(p), n)
          /\ n <= Len(d.experiences)
          /\ ~DataBearing(d, n)
          /\ ~Present(p.id)

(***************************************************************************)
(* C4.  For a record with k experiences, all data-bearing, the tokens of   *)
(* slot n <= min(k, 20) resolve field by field to exactly the n-th         *)
(* experience's texts (COMPANY only the company, LOCATION only the         *)
(* location, never joined; entries with the same company stay separate),   *)
(* and for k > 20 only experiences 1..20 are rendered.                     *)
(* As amended: LOCATION gives the location when it is not blank and        *)
(* "Location Not Specified" when it is.                                    *)
(***************************************************************************)
C4_AllDataBearing(rec) == \A n \in 1..Len(rec.experiences) : DataBearing(rec, n)

RECURSIVE C4_FillResp(_, _, _, _)
C4_FillResp(text, resps, n, m) ==
    IF m > Len(resps) THEN text
    ELSE C4_FillResp(Replace(text, RespTok(n, m), resps[m]), resps, n, m + 1)

\* the text with the tokens of slot n replaced by the fields of experience n
C4_FillExp(text, exp, n, verbatim) ==
    LET shown_location == IF verbatim \/ Strip(exp.location) # <<>>
                          THEN exp.location ELSE LocationNotSpecified
        t1 == C4_FillResp(text, exp.responsibilities, n, 1)
        t2 == Replace(t1, ExpTok(n, "_COMPANY"), exp.company)
        t3 == Replace(t2, ExpTok(n, "_ROLE"), exp.role)
        t4 == Replace(t3, ExpTok(n, "_DURATION"), exp.duration)
    IN Replace(t4, ExpTok(n, "_LOCATION"), shown_location)

RECURSIVE C4_Fill(_, _, _, _)
C4_Fill(text, rec, n, verbatim) ==
    IF n > Len(rec.experiences) \/ n > ExpSlots THEN text
    ELSE C4_Fill(C4_FillExp(text, rec.experiences[n], n, verbatim), rec, n + 1, verbatim)

\* this holds for a paragraph made of experience tokens the record can fill
C4_Covered(text, rec) ==
    /\ \E n \in 1..ExpSlots : RefersToSlot(text, n)
    /\ Open \notin Range(C4_Fill(text, rec, 1, TRUE))

C4_Rendering(verbatim) ==
    (Done /\ C4_AllDataBearing(d)) =>
        /\ \A p \in AllParas(template) :
              C4_Covered(ParaText(p), d) =>
                  ShownAs(p.id, C4_Fill(ParaText(p), d, 1, verbatim))
        /\ Len(d.experiences) > ExpSlots =>
              \A text \in TopTexts(doc) \cup CellTexts(doc) :
                  ~Contains(text, d.experiences[ExpSlots + 1].role)

\* C4 as written: every field token of a rendered slot, LOCATION included,
\* shows the experience's own text.
C4_FieldsVerbatim == C4_Rendering(TRUE)

\* C4 as amended: every field token of a rendered slot shows the experience's
\* own text, LOCATION showing 'Location Not Specified' for a blank location;
\* experience 21 is not rendered.
C4_FieldsResolved == C4_Rendering(FALSE)

\* 21 experiences of one company: slots 19 and 20 were rendered side by side
C4_Witness ==
    /\ Done
    /\ C4_AllDataBearing(d)
    /\ Len(d.experiences) > ExpSlots
    /\ \E p \in AllParas(template) :
          /\ C4_Covered(ParaText(p), d)
          /\ RefersToSlot(ParaText(p), ExpSlots)
          /\ RefersToSlot(ParaText(p), ExpSlots - 1)
          /\ ShownAs(p.id, d.experiences[ExpSlots].company \o <<SP>>
                           \o d.experiences[ExpSlots - 1].company)

(***************************************************************************)
(* C5.  A placeholder that resolves to the line-deletion sentinel (RESPm   *)
(* beyond the responsibilities of a data-bearing experience, an EDU or     *)
(* CERT token of a slot beyond the record's list) is blanked, in paragraph *)
(* scope and in table cells alike; the paragraph is removed if and only if *)
(* the remaining trimmed text is empty or a lone "-" or bullet, otherwise  *)
(* it is kept with only that placeholder blanked, so that no such token    *)
(* and no empty or bullet-only line is left.                               *)
(* As amended: this holds of a paragraph when neither the paragraph nor,   *)
(* for a cell paragraph, its table row holds a token of an experience slot *)
(* without data; section deletion goes first.                              *)
(***************************************************************************)
C5_HasLineToken(text, rec) ==
    \/ \E n \in 1..ExpSlots :
          /\ DataBearing(rec, n)
          /\ \E m \in (Len(rec.experiences[n].responsibilities) + 1)..RespSlots :
                Contains(text, RespTok(n, m))
    \/ \E n \in (Len(rec.education) + 1)..EduSlots :
          \E f \in Range(EduFields) : Contains(text, EduTok(n, f))
    \/ \E n \in (Len(rec.certifications) + 1)..CertSlots :
          \E f \in Range(CertFields) : Contains(text, CertTok(n, f))

\* the text once every token is resolved and the line-deletion sentinel blanked
C5_Remaining(text, rec) == Replace(Substitute(text, rec), <<REMOVE_THIS_LINE>>, <<>>)

C5_Blank(text) == Strip(text) \in {<<>>, <<Dash>>, <<Bullet>>}

\* a text as the runs show it, without the bold markers
C5_Shown(text) == SelectSeq(text, LAMBDA x : x \notin {BOLD, END_BOLD})

\* for a cell paragraph, the text of its row in the template
C5_RowText(p) ==
    IF p.id[1] = 0 THEN <<>> ELSE get_row_text(template.tables[p.id[1]][p.id[2]])

C5_SectionFree(p) ==
    /\ ~RefersToEmptySlot(ParaText(p), d)
    /\ ~RefersToEmptySlot(C5_RowText(p), d)

C5_Decided(p) ==
    LET remaining == C5_Remaining(ParaText(p), d)
    IN IF C5_Blank(remaining) THEN ~Present(p.id)
       ELSE ShownAs(p.id, C5_Shown(remaining))

\* C5 as written: a paragraph with a line-deletion token is removed when
\* nothing but a bullet remains and is otherwise kept with the token blanked,
\* whatever else the paragraph or its row holds.
C5_LineDeletionAlways ==
    Done => \A p \in AllParas(template) :
                C5_HasLineToken(ParaText(p), d) => C5_Decided(p)

\* C5 as amended: the same, for a paragraph that section deletion leaves
\* alone (no token of a slot without data in it or in its row).
C5_LineDeletion ==
    Done => \A p \in AllParas(template) :
                (C5_HasLineToken(ParaText(p), d) /\ C5_SectionFree(p)) => C5_Decided(p)

\* no education and no certification: a bullet line of a CERT token is gone
\* and a labelled line of CERT tokens is kept with the tokens blanked
C5_Witness ==
    /\ Done
    /\ d.education = <<>> /\ d.certifications = <<>>
    /\ \E p \in AllParas(template) :
          /\ C5_HasLineToken(ParaText(p), d)
          /\ C5_SectionFree(p)
          /\ Strip(C5_Remaining(ParaText(p), d)) = <<Bullet>>
          /\ ~Present(p.id)
    /\ \E p \in AllParas(template) :
          /\ C5_HasLineToken(ParaText(p), d)
          /\ C5_SectionFree(p)
          /\ ~C5_Blank(C5_Remaining(ParaText(p), d))
          /\ Present(p.id)

(***************************************************************************)
(* C6.  The text of the document returned by fill_template never contains  *)
(* any of the internal marker strings <<<DELETE_EXPERIENCE>>>,             *)
(* <<<REMOVE_THIS_LINE>>>, <<<BOLD>>>, <<<END_BOLD>>>, in top-level        *)
(* paragraphs or in table cells, for any record.                           *)
(* As amended: for any record none of whose texts holds such a string.     *)
(***************************************************************************)
\* the texts of a record
RecordTexts(rec) ==
    {rec[k] : k \in Range(ScalarKeys)}
    \cup Range(Get(rec, "technical_skills", <<>>))
    \cup Range(rec.language_skills)
    \cup UNION {{e[k] : k \in DOMAIN e \ {"responsibilities"}} \cup Range(e.responsibilities) :
                   e \in Range(rec.experiences)}
    \cup UNION {{e[k] : k \in DOMAIN e} : e \in Range(rec.education) \cup Range(rec.certifications)}

C6_PlainRecord(rec) == \A text \in RecordTexts(rec) : Range(text) \cap Markers = {}

C6_MarkerFree ==
    \A text \in TopTexts(doc) \cup CellTexts(doc) : Range(text) \cap Markers = {}

C7_IsList(x) == x # Absent /\ Tag(x) = "list"

C7_Has(entry, keys) ==
    /\ Tag(entry) = "dict"
    /\ \A key \in keys : key \in DOMAIN Val(entry) /\ HasKey(Val(entry), key)

C7_Every(list, Shape(_)) == \A k \in 1..Len(Val(list)) : Shape(Val(list)[k])

C7_Experience(entry) ==
    /\ C7_Has(entry, {"company", "location", "role", "duration", "responsibilities"})
    /\ C7_IsList(Val(entry).responsibilities)

C7_Education(entry) == C7_Has(entry, {"institution", "duration", "degree"})

C7_Certification(entry) == C7_Has(entry, {"name", "year", "provider", "location"})

\* C7: the record _validate_data returns has every list, and every entry of
\* experiences, education and certifications has every key.
C7_FullyPopulated ==
    vpc = "returned" =>
        /\ \A key \in {"experiences", "education", "certifications",
                       "technical_skills", "language_skills"} : C7_IsList(data[key])
        /\ C7_Every(data.experiences, C7_Experience)
        /\ C7_Every(data.education, C7_Education)
        /\ C7_Every(data.certifications, C7_Certification)

(***************************************************************************)
(* C8: _validate_data never raises: whatever the decoded mapping lacks or  *)
(* holds with another type, it returns.                                    *)
(***************************************************************************)
\* C8: no run of _validate_data ends in an exception.
C8_NeverRaises == vpc # "raised" /\ exc = "None"

(***************************************************************************)
(* C9: language_skills is never empty after _validate_data, nor in the     *)
(* empty record extract returns on a failure: a missing or empty value     *)
(* becomes the single entry 'English - Fluent', a non-empty value stays.   *)
(***************************************************************************)
C9_Default == List(<<Str(EnglishFluent)>>)

C9_GivenEmpty == ~HasKey(raw, "language_skills") \/ ~Truthy(raw.language_skills)

\* C9: the returned record holds the default when language_skills was
\* missing or empty and the given value otherwise; the empty record of the
\* exception handler holds the default; in both the value is not empty.
C9_LanguageSkillsNeverEmpty ==
    /\ vpc = "returned" =>
          /\ Truthy(data.language_skills)
          /\ C9_GivenEmpty => data.language_skills = C9_Default
          /\ ~C9_GivenEmpty => data.language_skills = raw.language_skills
    /\ vpc = "fallback" => data.language_skills = C9_Default

\* an empty list of languages was given, and the validator has returned
C9_Witness ==
    /\ vpc = "returned"
    /\ raw.language_skills = List(<<>>)
    /\ data.language_skills = C9_Default

(***************************************************************************)
(* C10: format_name turns each whitespace-separated token that is all      *)
(* upper-case and longer than one character into first-letter-upper,       *)
(* rest-lower, and leaves every other token as written; 'JOHN DOE' gives   *)
(* 'John Doe', a proper name is unchanged, the empty text gives the empty  *)
(* text, and a second application changes nothing.                         *)
(***************************************************************************)
C10_Starts(s) ==
    {i \in 1..Len(s) : s[i] \notin Whitespace /\ (i = 1 \/ s[i - 1] \in Whitespace)}

C10_End(s, i) ==
    CHOOSE e \in i..Len(s) :
        /\ \A k \in i..e : s[k] \notin Whitespace
        /\ e = Len(s) \/ s[e + 1] \in Whitespace

\* the tokens of a text, in the order of the text
C10_Tokens(s) ==
    LET starts == C10_Starts(s)
        nth(k) == CHOOSE i \in starts : Cardinality({j \in starts : j < i}) = k - 1
    IN [k \in 1..Cardinality(starts) |-> SubSeq(s, nth(k), C10_End(s, nth(k)))]

C10_AllCaps(tok) ==
    /\ Len(tok) > 1
    /\ \E k \in 1..Len(tok) : IsUpperChar(tok[k])
    /\ \A k \in 1..Len(tok) : ~IsLowerChar(tok[k])

C10_Expected(tok) ==
    IF C10_AllCaps(tok) THEN <<upper_char(tok[1])>> \o lower(Tail(tok)) ELSE tok

\* C10: the result is the tokens of the name, each all-caps token of more
\* than one character with its first letter upper and the rest lower and
\* every other token as written, joined by single blanks; so 'JOHN DOE'
\* gives 'John Doe', a name without such a token and with single blanks is
\* unchanged, the empty text gives the empty text, and format_name of the
\* result is the result.
C10_FormatName ==
    /\ fpc \in {"once", "twice"} =>
          LET toks == C10_Tokens(name_in)
          IN /\ formatted = Join([k \in 1..Len(toks) |-> C10_Expected(toks[k])], <<SP>>)
             /\ name_in = JohnDoeCaps => formatted = JohnDoe
             /\ (name_in = Join(toks, <<SP>>) /\ \A k \in 1..Len(toks) : ~C10_AllCaps(toks[k]))
                    => formatted = name_in
             /\ name_in = <<>> => formatted = <<>>
    /\ fpc = "twice" => reformatted = formatted

\* a name with an all-caps token and a token left as written, formatted twice
C10_Witness ==
    /\ fpc = "twice"
    /\ formatted # name_in
    /\ \E k \in 1..Len(C10_Tokens(name_in)) : C10_AllCaps(C10_Tokens(name_in)[k])
    /\ \E k \in 1..Len(C10_Tokens(name_in)) :
          /\ ~C10_AllCaps(C10_Tokens(name_in)[k])
          /\ \E j \in 1..Len(C10_Tokens(name_in)[k]) : IsUpperChar(C10_Tokens(name_in)[k][j])

(***************************************************************************)
(* C11.  format_date: 'Present' exactly for the terms of an open end; a    *)
(* month word and a year, a month number and a year; the first pattern     *)
(* that matches decides, and a text no pattern matches comes back as it    *)
(* is.  The patterns are stated here by what they match, any place and any *)
(* length of the groups.                                                   *)
(***************************************************************************)
C11_Letters(w) == \A k \in 1..Len(w) : IsUpperChar(w[k]) \/ IsLowerChar(w[k])

C11_AllDigits(w) == \A k \in 1..Len(w) : IsDigit(w[k])

C11_Year(y) == Len(y) = 4 /\ C11_AllDigits(y)

C11_Separators == {<<"-">>, <<SP>>, <<"/">>, <<TAB>>, <<",", SP>>}

\* the ways to read the whole text as word, separator, year
C11_Readings(s, seps) ==
    {<<SubSeq(s, 1, k), SubSeq(s, Len(s) - 3, Len(s))>> :
        k \in {k \in 1..(Len(s) - 4) : SubSeq(s, k + 1, Len(s) - 4) \in seps}}

\* the groups of the matches of (\w{3,})[- /](\d{4})
C11_Groups1(s) ==
    {<<SubSeq(s, m[1], m[2]), SubSeq(s, m[2] + 2, m[2] + 5)>> :
        m \in {m \in (1..Len(s)) \X (1..Len(s)) :
                  /\ m[2] - m[1] + 1 >= 3
                  /\ \A k \in m[1]..m[2] : IsWordChar(s[k])
                  /\ m[2] + 5 <= Len(s)
                  /\ s[m[2] + 1] \in {"-", SP, "/"}
                  /\ C11_Year(SubSeq(s, m[2] + 2, m[2] + 5))}}

\* the groups of the matches of (\d{1,2})[/-](\d{4})
C11_Groups2(s) ==
    {<<SubSeq(s, m[1], m[2]), SubSeq(s, m[2] + 2, m[2] + 5)>> :
        m \in {m \in (1..Len(s)) \X (1..Len(s)) :
                  /\ m[2] - m[1] + 1 \in {1, 2}
                  /\ C11_AllDigits(SubSeq(s, m[1], m[2]))
                  /\ m[2] + 5 <= Len(s)
                  /\ s[m[2] + 1] \in {"/", "-"}
                  /\ C11_Year(SubSeq(s, m[2] + 2, m[2] + 5))}}

\* the groups of the matches of (\w+),?\s+(\d{4}), the comma allowed or not
C11_Groups34(s, comma) ==
    {<<SubSeq(s, m[1], m[2]), SubSeq(s, m[3] + 1, m[3] + 4)>> :
        m \in {m \in (1..Len(s)) \X (1..Len(s)) \X (1..Len(s)) :
                  /\ m[1] <= m[2] /\ m[2] < m[3]
                  /\ \A k \in m[1]..m[2] : IsWordChar(s[k])
                  /\ LET b == IF comma /\ s[m[2] + 1] = "," THEN m[2] + 2 ELSE m[2] + 1
                     IN b <= m[3] /\ \A k \in b..m[3] : s[k] \in Whitespace
                  /\ m[3] + 4 <= Len(s)
                  /\ C11_Year(SubSeq(s, m[3] + 1, m[3] + 4))}}

C11_MonthYear(g) == upper(Take(g[1], 3)) \o <<SP>> \o g[2]

C11_NumberYear(g) ==
    LET n == ToInt(g[1])
    IN (IF n \in 1..12 THEN months[n] ELSE zfill2(g[1])) \o <<SP>> \o g[2]

\* what the first pattern with a match can give
C11_FirstPattern(s) ==
    IF C11_Groups1(s) # {} THEN {C11_MonthYear(g) : g \in C11_Groups1(s)}
    ELSE IF C11_Groups2(s) # {} THEN {C11_NumberYear(g) : g \in C11_Groups2(s)}
    ELSE IF C11_Groups34(s, FALSE) # {} THEN {C11_MonthYear(g) : g \in C11_Groups34(s, FALSE)}
    ELSE IF C11_Groups34(s, TRUE) # {} THEN {C11_MonthYear(g) : g \in C11_Groups34(s, TRUE)}
    ELSE {s}

\* C11: format_date gives 'Present' exactly for a term of an open end,
\* whatever its case; a word of three letters or more, a separator and a
\* year give the first three letters in upper case, a blank and the year; a
\* month number 1..12, '/' or '-' and a year give the month's abbreviation,
\* a blank and the year; otherwise the result is what the first pattern with
\* a match gives, and the text itself when no pattern matches.
C11_FormatDate ==
    dpc = "done" =>
        /\ date_ret = PresentText <=> lower(date_str) \in PresentTerms
        /\ \A g \in C11_Readings(date_str, C11_Separators) :
              (C11_Letters(g[1]) /\ Len(g[1]) >= 3 /\ C11_Year(g[2]))
                  => date_ret = C11_MonthYear(g)
        /\ \A g \in C11_Readings(date_str, {<<"/">>, <<"-">>}) :
              (C11_AllDigits(g[1]) /\ Len(g[1]) \in {1, 2} /\ ToInt(g[1]) \in 1..12
                  /\ C11_Year(g[2]))
                  => date_ret = months[ToInt(g[1])] \o <<SP>> \o g[2]
        /\ lower(date_str) \notin PresentTerms => date_ret \in C11_FirstPattern(date_str)

\* a text where the month-number pattern matches further left than the
\* month-word pattern: the month-word pattern, first in the list, decided
C11_Witness ==
    /\ dpc = "done"
    /\ C11_Groups1(date_str) # {}
    /\ C11_Groups2(date_str) # {}
    /\ date_ret \in {C11_MonthYear(g) : g \in C11_Groups1(date_str)}
    /\ date_ret \notin {C11_NumberYear(g) : g \in C11_Groups2(date_str)}

(***************************************************************************)
(* C12.  format_duration of a duration without '- Present': two parts are  *)
(* formatted one by one and joined by ' to ', whatever the flag; three     *)
(* parts or more come back as they are.  Every dash is one separator, so   *)
(* the number of parts is the number of dashes and one.                    *)
(* As amended: each part is trimmed before it is formatted.                *)
(***************************************************************************)
C12_DashPlaces(s) == {i \in 1..Len(s) : s[i] \in {"-", EnDash, EmDash}}

C12_NoPresent(s) == ~Contains(s, DashPresent)

\* the two parts around the only dash, without the blanks the separator
\* takes, and trimmed on the outside as well when trim is set
C12_Parts(s, trim) ==
    LET k == CHOOSE i \in C12_DashPlaces(s) : TRUE
        left == RStrip(SubSeq(s, 1, k - 1))
        right == LStrip(SubSeq(s, k + 1, Len(s)))
    IN IF trim THEN <<Strip(left), Strip(right)>> ELSE <<left, right>>

C12_Range(trim) ==
    (upc = "done" /\ C12_NoPresent(duration_str)) =>
        /\ Cardinality(C12_DashPlaces(duration_str)) = 1 =>
              LET parts == C12_Parts(duration_str, trim)
              IN duration_ret = format_date(parts[1]) \o ToText \o format_date(parts[2])
        /\ Cardinality(C12_DashPlaces(duration_str)) >= 2 => duration_ret = duration_str

\* C12 as written: the two parts are formatted as the split gives them.
C12_RangeOfSplitParts == C12_Range(FALSE)

\* C12 as amended: two parts give format_date of each trimmed part joined by
\* ' to ', whatever the flag; three parts or more give the duration itself.
C12_RangeOfTrimmedParts == C12_Range(TRUE)

\* a duration of two parts with a blank before it, given with the flag set,
\* whose first part format_date changed
C12_Witness ==
    /\ upc = "done"
    /\ is_first_experience
    /\ C12_NoPresent(duration_str)
    /\ Cardinality(C12_DashPlaces(duration_str)) = 1
    /\ duration_str[1] = SP
    /\ format_date(C12_Parts(duration_str, TRUE)[1]) # C12_Parts(duration_str, TRUE)[1]

(***************************************************************************)
(* C13.  format_duration of '<start> - Present': the whole start portion   *)
(* before '- Present', its month abbreviation in upper case and a blank    *)
(* between month and year, then ' to Present'.                             *)
(***************************************************************************)
\* the text before the closing '- Present', trimmed
C13_Start(s) == Strip(SubSeq(s, 1, Len(s) - Len(DashPresent)))

C13_EndsOpen(s) ==
    /\ Len(s) >= Len(DashPresent)
    /\ SubSeq(s, Len(s) - Len(DashPresent) + 1, Len(s)) = DashPresent

\* C13: a duration that ends in '- Present' gives its whole start portion,
\* month in upper case and a blank before the year, followed by ' to Present'.
C13_StartKept ==
    (upc = "done" /\ C13_EndsOpen(duration_str)) =>
        duration_ret = SpaceYear(MonthUpper(C13_Start(duration_str))) \o ToPresent

\* format_duration on its own and as _validate_data calls it
InitDurationUse == InitValidate \/ InitDuration

SpecDurationUse == InitDurationUse /\ [][ValidateNext \/ DurationNext]_vars

(***************************************************************************)
(* C14.  A duration of a single part: with is_first_experience the date    *)
(* formatted and ' to Present' behind it, without it the input unchanged;  *)
(* _validate_data sets the flag for the experience at index 0 only.        *)
(***************************************************************************)
C14_SinglePart(s) == \A k \in 1..Len(s) : s[k] \notin {"-", EnDash, EmDash}

\* the result for a single part when the flag is set: the formatted date and
\* ' to Present', or the formatted date alone when it is 'Present' already
C14_Open(start) == IF start = PresentText THEN PresentText ELSE start \o ToPresent

\* the single-part durations of the entries of a list of the raw record, as
\* <<position, text>> with the position counted from 1
C14_SingleParts(xs) ==
    IF Tag(xs) # "list" THEN {}
    ELSE {<<k, Val(Val(Val(xs)[k]).duration)>> :
            k \in {k \in 1..Len(Val(xs)) :
                     /\ Tag(Val(xs)[k]) = "dict"
                     /\ Tag(Val(Val(xs)[k]).duration) = "str"
                     /\ Val(Val(Val(xs)[k]).duration) # <<>>
                     /\ C14_SinglePart(Val(Val(Val(xs)[k]).duration))}}

\* what _validate_data returns: the first experience has the result of the
\* call with the flag, every later experience and every education entry has
\* its duration as it was
C14_OnlyFirstExperience ==
    vpc = "returned" =>
        /\ \A m \in C14_SingleParts(raw.experiences) :
              Val(Val(data.experiences)[m[1]]).duration =
                  Str(IF m[1] = 1 THEN format_duration(m[2], TRUE) ELSE m[2])
        /\ \A m \in C14_SingleParts(raw.education) :
              Val(Val(data.education)[m[1]]).duration = Str(m[2])

C14_Single(trim) ==
    /\ (upc = "done" /\ duration_str # <<>> /\ C14_SinglePart(duration_str)) =>
           IF is_first_experience
           THEN LET part == IF trim THEN Strip(duration_str) ELSE duration_str
                IN IF trim /\ part = <<>> THEN duration_ret = <<>>
                   ELSE duration_ret = C14_Open(format_date(part))
           ELSE duration_ret = duration_str
    /\ C14_OnlyFirstExperience

\* C14 as stated: a single-part duration with the flag set gives
\* format_date of the part followed by ' to Present', or 'Present' alone when
\* that is what format_date gives; without the flag the input comes back
\* unchanged; _validate_data sets the flag for the experience at index 0 only
\* and never for an education entry.
C14_SingleAsGiven == C14_Single(FALSE)

\* C14: a single-part duration with the flag set gives format_date of the
\* part trimmed of the blanks around it, followed by ' to Present', or
\* 'Present' alone when that is what format_date gives, or the empty text
\* when nothing is left of the part; without the flag the input comes back
\* unchanged; _validate_data sets the flag for the experience at index 0 only
\* and never for an education entry.
C14_SingleTrimmed == C14_Single(TRUE)

\* two experiences with the same single date: the first one has gained
\* ' to Present', the second one has not
C14_Witness ==
    /\ vpc = "returned"
    /\ Tag(raw.experiences) = "list"
    /\ {1, 2} \subseteq {m[1] : m \in C14_SingleParts(raw.experiences)}
    /\ Val(Val(data.experiences)[1]).duration = Str(<<"2", "0", "1", "9", " ", "t", "o", " ", "P", "r", "e", "s", "e", "n", "t">>)
    /\ Val(Val(data.experiences)[2]).duration = Str(<<"2", "0", "1", "9">>)

\* fill_template and _validate_data, each on its own inputs
InitRenderOrValidate == Init \/ InitValidate

SpecRenderOrValidate == InitRenderOrValidate /\ [][FillNext \/ ValidateNext]_vars

(***************************************************************************)
(* C15.  The texts that stand in for a blank field are put in by           *)
(* fill_template: 'Location Not Specified', 'Dates Not Available', 'Year   *)
(* Not Available', 'Provider Not Specified'; the location of a             *)
(* certification is shown as it is.  _validate_data stores no such text.   *)
(***************************************************************************)
\* the text of the field, or the text that stands in for it when it is blank
C15_OrElse(entry, key, standin) ==
    IF Strip(Get(entry, key, <<>>)) # <<>> THEN Get(entry, key, <<>>) ELSE standin

\* the text with the tokens of slot n replaced: those of the n-th experience
\* when it is data-bearing, of the n-th education entry and of the n-th
\* certification when there is one
C15_FillSlot(text, rec, n) ==
    LET t1 == IF n <= ExpSlots /\ DataBearing(rec, n)
              THEN LET exp == rec.experiences[n]
                       resps == exp.responsibilities
                       a == Replace(text, ExpTok(n, "_COMPANY"), exp.company)
                       b == Replace(a, ExpTok(n, "_ROLE"), exp.role)
                       c == Replace(b, ExpTok(n, "_DURATION"), exp.duration)
                   IN Replace(c, ExpTok(n, "_LOCATION"),
                              C15_OrElse(exp, "location", LocationNotSpecified))
              ELSE text
        t2 == IF n <= EduSlots /\ n <= Len(rec.education)
              THEN LET edu == rec.education[n]
                       a == Replace(t1, EduTok(n, "_INSTITUTION"), edu.institution)
                       b == Replace(a, EduTok(n, "_DEGREE"), edu.degree)
                   IN Replace(b, EduTok(n, "_DURATION"),
                              C15_OrElse(edu, "duration", DatesNotAvailable))
              ELSE t1
    IN IF n <= CertSlots /\ n <= Len(rec.certifications)
       THEN LET cert == rec.certifications[n]
                a == Replace(t2, CertTok(n, "_NAME"), cert.name)
                b == Replace(a, CertTok(n, "_LOCATION"), cert.location)
                c == Replace(b, CertTok(n, "_YEAR"),
                             C15_OrElse(cert, "year", YearNotAvailable))
            IN Replace(c, CertTok(n, "_PROVIDER"),
                       C15_OrElse(cert, "provider", ProviderNotSpecified))
       ELSE t2

RECURSIVE C15_Fill(_, _, _)
C15_Fill(text, rec, n) ==
    IF n > ExpSlots THEN text ELSE C15_Fill(C15_FillSlot(text, rec, n), rec, n + 1)

C15_Fields == {"_LOCATION", "_DURATION", "_YEAR", "_PROVIDER"}

\* a paragraph with one of the four fields or the location of a certification,
\* all of whose tokens belong to slots the record fills
C15_Covered(text, rec) ==
    /\ Range(text) \cap C15_Fields # {}
    /\ Open \notin Range(C15_Fill(text, rec, 1))

C15_AtRender ==
    Done => \A p \in AllParas(template) :
                C15_Covered(ParaText(p), d) =>
                    /\ \A q \in AllParas(doc) :
                          q.id = p.id => ParaText(q) = C15_Fill(ParaText(p), d, 1)
                    /\ p.id[1] = 0 => Present(p.id)

\* the field of an entry of the raw record is missing or falsy
C15_Blank(entry, key) == Lacks(Val(entry), key)

\* the entries of a list of the record that _validate_data returned, with
\* the entries they came from
C15_Pairs(key) ==
    {<<Val(raw[key])[k], Val(data[key])[k]>> : k \in 1..Len(Val(data[key]))}

\* what _validate_data has stored: '' for a blank duration of an education
\* entry and for a blank year or provider of a certification, every other
\* year and provider as it came; the location of an experience is '' when it
\* was blank (as stated), or as it came, a missing one still missing
C15_Stored(location_emptied) ==
    (vpc = "returned" /\ Tag(raw.experiences) = "list" /\ Tag(raw.education) = "list"
                      /\ Tag(raw.certifications) = "list") =>
        /\ \A m \in C15_Pairs("experiences") :
              Val(m[2]).location =
                  IF location_emptied /\ C15_Blank(m[1], "location") THEN Str(<<>>)
                  ELSE Val(m[1]).location
        /\ \A m \in C15_Pairs("education") :
              C15_Blank(m[1], "duration") => Val(m[2]).duration = Str(<<>>)
        /\ \A m \in C15_Pairs("certifications") :
              \A key \in {"year", "provider"} :
                  Val(m[2])[key] = IF C15_Blank(m[1], key) THEN Str(<<>>) ELSE Val(m[1])[key]

C16_Inked(s) == {k \in 1..Len(s) : s[k] \notin Whitespace}

\* the name from its first to its last character that is no whitespace
C16_Core(s) ==
    IF C16_Inked(s) = {} THEN <<>>
    ELSE SubSeq(s, CHOOSE i \in C16_Inked(s) : \A k \in C16_Inked(s) : i <= k,
                   CHOOSE j \in C16_Inked(s) : \A k \in C16_Inked(s) : k <= j)

\* character by character the core of the name, an underscore for each of
\* the nine characters
C16_Sanitized(core, ret) ==
    /\ Len(ret) = Len(core)
    /\ \A k \in 1..Len(core) :
          ret[k] = IF core[k] \in {"\\", "/", "*", "?", ":", "\"", "<", ">", "|"}
                   THEN "_" ELSE core[k]

C16_Filename(exactly) ==
    spc \in {"once", "twice"} =>
        /\ IF C16_Core(file_str) = <<>> THEN file_ret = OutputText
           ELSE C16_Sanitized(C16_Core(file_str), file_ret)
        /\ exactly => (file_ret = OutputText <=> C16_Core(file_str) = <<>>)
        /\ Range(file_ret) \cap {"\\", "/", "*", "?", ":", "\"", "<", ">", "|"} = {}
        /\ file_ret # <<>>
        /\ spc = "twice" => file_again = file_ret

\* C16 as stated: the result is the trimmed name with one underscore for each
\* of the nine characters and nothing else changed, holds none of them, is
\* never empty, is 'output' exactly when nothing is left of the sanitized and
\* trimmed name, and is its own safe_filename.
C16_OutputOnlyForEmpty == C16_Filename(TRUE)

\* C16: the result is the trimmed name with one underscore for each of the
\* nine characters and nothing else changed, holds none of them, is never
\* empty, is 'output' whenever nothing is left of the sanitized and trimmed
\* name, and is its own safe_filename.
C16_SafeFilename == C16_Filename(FALSE)

\* a name with blanks around it and two of the characters inside
C16_Witness ==
    /\ spc = "twice"
    /\ file_str = <<" ", "a", "|", "b", "?", " ">>
    /\ file_ret = <<"a", "_", "b", "_">>
    /\ file_again = file_ret

C18_Queued(t) == Range(RowsToDelete(template.tables[t], ExperiencesWithData(d)))

\* the queued rows of table t that cannot be removed
C18_Stuck(t) == {r \in C18_Queued(t) : <<t, r>> \in unremovable}

\* the rows table t has in the end: those not queued and those that are stuck
C18_Rows(t) ==
    SelectSeq([r \in 1..Len(template.tables[t]) |-> r],
              LAMBDA r : r \notin C18_Queued(t) \/ r \in C18_Stuck(t))

\* C18: on return every table holds its rows that were not queued, filled,
\* and its queued rows whose removal raised, as they were; there is one
\* warning for each of these rows and none else; the call has returned the
\* document.
C18_RowFailureCaught ==
    Done =>
        /\ returned = "doc"
        /\ Len(doc.tables) = Len(template.tables)
        /\ \A t \in 1..Len(template.tables) :
              LET rows == C18_Rows(t)
                  stuck == C18_Stuck(t)
              IN /\ Len(doc.tables[t]) = Len(rows)
                 /\ \A k \in 1..Len(rows) :
                       LET row == template.tables[t][rows[k]]
                       IN doc.tables[t][k] =
                             IF rows[k] \in stuck THEN row
                             ELSE [c \in 1..Len(row) |-> ProcessCell(row[c], d)]
        /\ Range(warnings) = UNION {{t} \X C18_Stuck(t) : t \in 1..Len(template.tables)}
        /\ \A j, k \in 1..Len(warnings) : warnings[j] = warnings[k] => j = k

\* the removal of a queued row raised and the row is still there; a queued
\* row above it was removed after that
C18_Witness ==
    /\ Done
    /\ \E t \in 1..Len(template.tables) :
          \E r \in C18_Stuck(t) :
              /\ \E q \in C18_Queued(t) \ C18_Stuck(t) : q < r
              /\ \E k \in 1..Len(doc.tables[t]) : doc.tables[t][k] = template.tables[t][r]
              /\ <<t, r>> \in Range(warnings)

(***************************************************************************)
(* C19.  In the generation loop every record is rendered into a document   *)
(* parsed anew from the stored template bytes; the bytes never change, and *)
(* the document of a record depends on the bytes and the record only.      *)
(***************************************************************************)
\* fill_template as a function of a document and a record: the paragraph
\* loop, then for every table the three passes
C19_Filled(document, rec) ==
    LET ps == [k \in 1..Len(document.paragraphs) |->
                  ProcessTopParagraph(document.paragraphs[k], rec)]
        tb(t) == document.tables[t]
        queued(t) == RowsToDelete(tb(t), ExperiencesWithData(rec))
    IN [paragraphs |->
            RemoveIndices([k \in 1..Len(ps) |-> ps[k].para],
                          {k \in 1..Len(ps) : ps[k].remove}, 1),
        tables |->
            [t \in 1..Len(document.tables) |->
                LET rows == SelectSeq([r \in 1..Len(tb(t)) |-> r],
                                      LAMBDA r : r \notin Range(queued(t)))
                IN [k \in 1..Len(rows) |->
                       [c \in 1..Len(tb(t)[rows[k]]) |->
                           ProcessCell(tb(t)[rows[k]][c], rec)]]]]

\* the rendering of a record on its own
C19_Render(bytes, rec) == Saved(C19_Filled(Deserialize(bytes), rec))

C20_Where(seq, Test(_)) == SelectSeq([k \in 1..Len(seq) |-> k], Test)

\* the files that gave a record, in the order of the upload
C20_Extracted == C20_Where(cvs, LAMBDA k : cvs[k].outcome = "text")

\* the entries whose rendering does not raise, in their order
C20_Rendered == C20_Where(extracted_data, LAMBDA k : k \notin render_raises)

\* C20: when the extraction loop has ended, extracted_data holds the record
\* of every file that gave one, in the order of the files, whatever happened
\* to the files before it; when the generation loop has ended, converted_cvs
\* holds the entry of every record whose rendering did not raise, in the
\* order of extracted_data, with its rendered document.
C20_FailureIsolated ==
    /\ bpc # "extract" =>
          /\ Len(extracted_data) = Len(C20_Extracted)
          /\ \A k \in 1..Len(C20_Extracted) :
                extracted_data[k].rec = cvs[C20_Extracted[k]].rec
    /\ bpc = "complete" =>
          /\ Len(converted_cvs) = Len(C20_Rendered)
          /\ \A k \in 1..Len(C20_Rendered) :
                /\ converted_cvs[k].name = extracted_data[C20_Rendered[k]].name
                /\ converted_cvs[k].rec = extracted_data[C20_Rendered[k]].rec
                /\ converted_cvs[k].buffer =
                      Saved(C19_Filled(Deserialize(tpl_bytes), converted_cvs[k].rec))

\* the rendering of the first record raised, the second record was rendered
C20_Witness ==
    /\ bpc = "complete"
    /\ Len(extracted_data) = 2
    /\ render_raises = {1}
    /\ Len(converted_cvs) = 1
    /\ converted_cvs[1].rec = extracted_data[2].rec
    /\ errors = <<<<"generate", 1>>>>

(***************************************************************************)
(* Layout.  Templates and records that reach every branch of the rebuild   *)
(* of a changed paragraph (utils.py 340-381 and 431-525): project headers  *)
(* with and without a bullet and with a bold pair, a line that is left as  *)
(* a lone dash, one and two bold pairs, and texts of several lines, as     *)
(* top-level paragraphs and as the paragraphs of one table cell.           *)
(***************************************************************************)
HeaderLine ==
    <<ProjectName, SP>> \o ExpTok(1, "_ROLE") \o <<SP, LocationLabel, SP>>
        \o ExpTok(1, "_LOCATION")

LayoutPool ==
    << HeaderLine,
       <<Bullet, SP>> \o HeaderLine,
       <<ProjectName, SP>> \o ExpTok(1, "_COMPANY") \o <<SP, LocationLabel, SP>>
           \o ExpTok(1, "_LOCATION"),
       <<ProjectName, SP>> \o T("POSITION") \o <<SP, LocationLabel, SP, "Lyon", SP,
           DurationLabel, SP>> \o ExpTok(1, "_DURATION"),
       <<Dash, SP>> \o T("PHONE"),
       <<"At", SP>> \o ExpTok(1, "_COMPANY"),
       ExpTok(1, "_COMPANY") \o <<SP, Dash, SP>> \o ExpTok(2, "_COMPANY") \o <<"!">>,
       T("TECHNICAL_SKILLS_LIST"),
       <<"Languages">>,
       T("INTRO_PARAGRAPH"),
       ExpTok(1, "_COMPANY") \o <<SP>> \o T("TECHNICAL_SKILLS_LIST"),
       <<SP>> \o RespTok(1, 1),
       T("EMAIL") >>

\* an introduction of two lines, the first a project header
HeaderIntro ==
    <<ProjectName, SP, "Atlas", SP, LocationLabel, SP, "Lyon", NL, "Built", SP, "it">>

\* a responsibility that is a lone dash
DashExp(i) == [FullExp(i) EXCEPT !.responsibilities = <<<<Dash>>>>]

LayoutRecords ==
    {[MakeRecord(exps, RestFull) EXCEPT !.intro_paragraph = HeaderIntro] :
        exps \in {<<FullExp(1), FullExp(2)>>, <<DashExp(1)>>}}

LayoutTemplates ==
    {[paragraphs |-> [k \in 1..Len(w) |-> TemplatePara(w[k])], tables |-> <<>>] :
        w \in Windows(LayoutPool, MaxParas)}
    \cup {[paragraphs |-> <<>>,
           tables |-> << << << [k \in 1..Len(w) |-> TemplatePara(w[k])] >> >> >>] :
            w \in Windows(LayoutPool, MaxParas) \ {<<>>}}

LayoutInit ==
    /\ d \in LayoutRecords
    /\ template \in {WithIds(t) : t \in LayoutTemplates}
    /\ unremovable = {}
    /\ FillCall

InitLayout == LayoutInit /\ IdleBut("fill_template")

SpecLayout == InitLayout /\ [][Next]_vars

\* new_text as the rebuild sees it: the mapping applied, the line marker blanked
NewText(p) == Replace(Substitute(ParaText(p), d), <<REMOVE_THIS_LINE>>, <<>>)

\* the paragraph of the template is rebuilt: it is still in the document, its
\* text changed, and it is no lone dash
Rebuilt(p) ==
    /\ Present(p.id)
    /\ NewText(p) # ParaText(p)
    /\ ~Contains(Substitute(ParaText(p), d), <<DELETE_EXPERIENCE>>)
    /\ Strip(NewText(p)) # <<Dash>>

\* the paragraphs of the template's top level and of its table cells
TopParas(document) == Range(document.paragraphs)

CellParas(document) == AllParas(document) \ TopParas(document)

Unmarked(text) == Replace(Replace(text, <<BOLD>>, <<>>), <<END_BOLD>>, <<>>)

(***************************************************************************)
(* C21.  In paragraph scope and in table scope alike, a substituted line   *)
(* that begins with "Project Name:" (after any leading bullet prefix,      *)
(* which is stripped from the output) and contains "Location:" is emitted  *)
(* as one fully bold run, also when the line holds a bold pair.            *)
(***************************************************************************)
C21_Unbulleted(line) ==
    IF StartsWith(Strip(line), <<Bullet, SP>>) THEN ReplaceFirstBullet(line) ELSE line

C21_IsHeader(line) ==
    /\ StartsWith(Strip(C21_Unbulleted(line)), <<ProjectName>>)
    /\ Contains(line, <<LocationLabel>>)

\* the lines of the rebuilt paragraphs that are project headers
C21_Headers(paras) ==
    UNION {{line \in Range(Split(NewText(p), <<NL>>)) : C21_IsHeader(line)} :
              p \in {p \in paras : Rebuilt(p)}}

C21_FullyBold(line) ==
    \E q \in AllParas(doc) : q.runs = <<Run(Unmarked(C21_Unbulleted(line)), "True")>>

\* C21: on return every project header line of a rebuilt paragraph, at top
\* level or in a cell, is one bold run without its bullet and its markers.
C21_HeaderFullyBold ==
    Done => \A line \in C21_Headers(AllParas(template)) : C21_FullyBold(line)

\* what table scope does: a header line that starts with "Project Name:"
\* itself and holds no bold pair is one bold run
C21_PlainHeaderInCell ==
    Done => \A line \in C21_Headers({p \in CellParas(template) :
                                        ~HasBoldPair(NewText(p))}) :
                StartsWith(Strip(line), <<ProjectName>>) => C21_FullyBold(line)

(***************************************************************************)
(* C22.  In paragraph scope and in table scope alike, a paragraph whose    *)
(* text was changed by substitution and whose trimmed result is exactly    *)
(* "-" is dropped: it is removed from the document, not left behind as an  *)
(* empty paragraph.                                                        *)
(***************************************************************************)
\* the paragraphs whose changed text is a lone dash
C22_LoneDash(paras) ==
    {p \in paras : /\ NewText(p) # ParaText(p)
                   /\ ~Contains(Substitute(ParaText(p), d), <<DELETE_EXPERIENCE>>)
                   /\ Strip(NewText(p)) = <<Dash>>}

\* C22: on return no paragraph whose changed text is a lone dash is still in
\* the document, at top level or in a cell.
C22_LoneDashDropped ==
    Done => \A p \in C22_LoneDash(AllParas(template)) : ~Present(p.id)

\* what table scope does: the cell paragraph is removed
C22_LoneDashDroppedInCell ==
    Done => \A p \in C22_LoneDash(CellParas(template)) : ~Present(p.id)

\* what paragraph scope does: the paragraph stays, without a run
C22_LoneDashEmptiedAtTop ==
    Done => \A p \in C22_LoneDash(TopParas(template)) :
                \/ \E q \in TopParas(doc) : q.id = p.id /\ q.runs = <<>>
                \/ /\ Contains(Substitute(ParaText(p), d), <<REMOVE_THIS_LINE>>)
                   /\ ~Present(p.id)

(***************************************************************************)
(* C23.  When a changed paragraph's substituted text contains a bold pair, *)
(* the rebuilt runs are, in order, the text before the pair (omitted when  *)
(* empty), the text inside the pair with the bold flag set, and the text   *)
(* after the pair (omitted when empty); the bold flag is set on no other   *)
(* run, and the runs concatenate to exactly the substituted text with the  *)
(* markers removed, also when several pairs occur in one paragraph.        *)
(***************************************************************************)
\* the places of the bold-open markers that have a bold-close marker behind
C23_Opens(text) ==
    SelectSeq([k \in 1..Len(text) |-> k],
              LAMBDA k : /\ text[k] = BOLD
                         /\ \E j \in (k + 1)..Len(text) : text[j] = END_BOLD)

\* the text between the marker at place k and the first bold-close behind it
C23_Inside(text, k) ==
    LET j == CHOOSE j \in (k + 1)..Len(text) :
                /\ text[j] = END_BOLD
                /\ \A i \in (k + 1)..(j - 1) : text[i] # END_BOLD
    IN SubSeq(text, k + 1, j - 1)

\* the texts inside the pairs, in order
C23_BoldTexts(text) ==
    [n \in 1..Len(C23_Opens(text)) |-> C23_Inside(text, C23_Opens(text)[n])]

\* the runs are those of the claim for this text
C23_RunsOf(runs, text) ==
    LET bolds == SelectSeq(runs, LAMBDA r : r.bold = "True")
    IN /\ [n \in 1..Len(bolds) |-> bolds[n].text] = C23_BoldTexts(text)
       /\ \A n \in 1..Len(runs) :
             /\ runs[n].bold \in {"True", "None"}
             /\ runs[n].bold = "None" => runs[n].text # <<>>
             /\ (n > 1 /\ runs[n].bold = "None") => runs[n - 1].bold = "True"
       /\ Flatten([n \in 1..Len(runs) |-> runs[n].text]) = Unmarked(text)
       /\ (runs[1].bold = "None") = (text[1] # BOLD)
       /\ (runs[Len(runs)].bold = "None") = (text[Len(text)] # END_BOLD)

\* C23: on return every rebuilt paragraph whose text holds a bold pair has
\* the runs before, inside and after each pair, bold only inside.
C23_BoldSpanRuns ==
    Done => \A p \in {p \in AllParas(template) : Rebuilt(p) /\ HasBoldPair(NewText(p))} :
                \E q \in AllParas(doc) : q.id = p.id /\ C23_RunsOf(q.runs, NewText(p))

\* a cell paragraph with two pairs: bold, between, bold, behind
C23_Witness ==
    /\ Done
    /\ \E p \in CellParas(template) :
          /\ Rebuilt(p)
          /\ Len(C23_Opens(NewText(p))) = 2
          /\ \E q \in CellParas(doc) :
                /\ q.id = p.id
                /\ [n \in 1..Len(q.runs) |-> q.runs[n].bold] = <<"True", "None", "True", "None">>

(***************************************************************************)
(* C24.  Every paragraph the renderer rebuilds, in paragraph scope and in  *)
(* table scope and in every branch (bold-span, multi-line, single-line),   *)
(* gets line spacing 1.5, and every run it emits is Arial, 10 pt, solid    *)
(* black and non-bold unless it is the bold segment.                       *)
(***************************************************************************)
\* the paragraphs of the document that the renderer rebuilt or made
C24_Emitted(paras) ==
    {q \in AllParas(doc) : \/ \E p \in paras : Rebuilt(p) /\ q.id = p.id
                           \/ q.id = NewId}

C24_Typography(q) ==
    \A n \in 1..Len(q.runs) :
        /\ q.runs[n].name = "Arial"
        /\ q.runs[n].size = 10
        /\ q.runs[n].color = "000000"
        /\ q.runs[n].bold \in {"True", "False", "None"}
        /\ q.runs[n].bold = "True" =>
              \/ IsProjectHeader(q.runs[n].text)
              \/ \E p \in AllParas(template) :
                    /\ p.id = q.id
                    /\ q.runs[n].text \in Range(C23_BoldTexts(NewText(p)))

\* C24: on return every rebuilt paragraph has line spacing 1.5 and runs in
\* Arial 10 pt black, bold only in the bold segment.
C24_UniformTypography ==
    Done => \A q \in C24_Emitted(AllParas(template)) :
                q.line_spacing = "1.5" /\ C24_Typography(q)

\* what the code does: the runs are uniform everywhere, and the line spacing
\* is set except for a cell paragraph rebuilt by the bold-span branch
C24_SpacingButCellBoldSpan ==
    Done => \A q \in C24_Emitted(AllParas(template)) :
                /\ C24_Typography(q)
                /\ q.line_spacing = "1.5" \/
                       \E p \in CellParas(template) :
                           p.id = q.id /\ HasBoldPair(NewText(p)) /\ q.line_spacing = "None"

(***************************************************************************)
(* Tokens that share a prefix: templates holding RESP1 next to RESP10,     *)
(* RESP19 and RESP100, slot 1 next to slots 10 and 19, slot 2 next to slot *)
(* 20, at top level and in table rows; records of twenty experiences with  *)
(* nineteen responsibilities each, of which one may lack its role.         *)
(***************************************************************************)
TokenExp(i) ==
    [FullExp(i) EXCEPT !.responsibilities =
        [j \in 1..19 |-> <<"R">> \o Digits(i) \o <<".">> \o Digits(j)]]

TokenPool ==
    << RespTok(1, 1) \o <<SP>> \o RespTok(1, 10) \o <<SP>> \o RespTok(1, 100),
       RespTok(1, 19) \o <<SP>> \o RespTok(1, 1),
       ExpTok(1, "_ROLE") \o <<SP>> \o ExpTok(10, "_ROLE") \o <<SP>> \o ExpTok(19, "_ROLE"),
       ExpTok(20, "_ROLE") \o <<SP>> \o ExpTok(2, "_ROLE"),
       RespTok(10, 1) \o <<SP>> \o RespTok(1, 10),
       CertTok(10, "_NAME") \o <<"Cert:", SP>> \o CertTok(1, "_NAME") >>

TokenRows ==
    << ExpRow(10), ExpRow(1), ExpRow(2), ExpRow(20),
       << << TemplatePara(RespTok(10, 1) \o <<SP>> \o RespTok(10, 10)) >> >>,
       << << TemplatePara(RespTok(1, 10) \o <<SP>> \o RespTok(1, 1)) >> >> >>

TokenRecords ==
    {MakeRecord(exps, RestFull) :
        exps \in {[i \in 1..ExpSlots |-> TokenExp(i)],
                  [i \in 1..ExpSlots |-> IF i = 1 THEN NoRoleExp(i) ELSE TokenExp(i)],
                  [i \in 1..ExpSlots |-> IF i = 10 THEN NoRoleExp(i) ELSE TokenExp(i)],
                  <<TokenExp(1), TokenExp(2)>>,
                  <<FullExp(1)>>}}

TokenTemplates ==
    {[paragraphs |-> [k \in 1..Len(w) |-> TemplatePara(w[k])], tables |-> <<>>] :
        w \in Windows(TokenPool, MaxParas)}
    \cup {[paragraphs |-> <<>>, tables |-> <<t>>] : t \in Windows(TokenRows, MaxRows) \ {<<>>}}

TokenInit ==
    /\ d \in TokenRecords
    /\ template \in {WithIds(t) : t \in TokenTemplates}
    /\ unremovable = {}
    /\ FillCall

InitToken == TokenInit /\ IdleBut("fill_template")

SpecToken == InitToken /\ [][Next]_vars

(***************************************************************************)
(* C25.  Token matching always includes the delimiters, so tokens that     *)
(* share a prefix never collide: substituting {{EXPn_RESP1}} leaves        *)
(* {{EXPn_RESP10}}..{{EXPn_RESP19}} and {{EXPn_RESP100}} intact for their  *)
(* own replacement, tokens of slot 1 never match inside tokens of slots    *)
(* 10..19 (nor slot 2 inside slot 20), the result does not depend on the   *)
(* order in which the mapping is applied, and the table row scan for slot  *)
(* n matches only rows that really reference slot n.                       *)
(***************************************************************************)
RECURSIVE C25_Whole(_, _, _)
\* every whole token of the text, from its "{{" to the next "}}", replaced by
\* the value of that very key: all tokens at once
C25_Whole(text, rec, i) ==
    IF i > Len(text) THEN <<>>
    ELSE IF text[i] = Open /\ \E j \in (i + 1)..Len(text) : text[j] = Close
    THEN LET j == CHOOSE j \in (i + 1)..Len(text) :
                     /\ text[j] = Close
                     /\ \A m \in (i + 1)..(j - 1) : text[m] # Close
             keys == {idx \in 1..NumRepl : Placeholders[idx] = SubSeq(text, i, j)}
         IN IF keys = {} THEN <<text[i]>> \o C25_Whole(text, rec, i + 1)
            ELSE repl_value(rec, CHOOSE idx \in keys : TRUE) \o C25_Whole(text, rec, j + 1)
    ELSE <<text[i]>> \o C25_Whole(text, rec, i + 1)

RECURSIVE C25_ApplyIn(_, _, _, _)
\* the keys replaced one after the other in the given order
C25_ApplyIn(text, rec, order, k) ==
    IF k > Len(order) THEN text
    ELSE C25_ApplyIn(Replace(text, Placeholders[order[k]], repl_value(rec, order[k])),
                     rec, order, k + 1)

\* every order of the keys that occur in the text
C25_Orders(text) ==
    LET keys == {idx \in 1..NumRepl : Placeholders[idx] \in Slices(text)}
    IN {order \in [1..Cardinality(keys) -> keys] :
          \A a, b \in DOMAIN order : a # b => order[a] # order[b]}

\* the text a rebuilt paragraph shows for a substituted text of one line
C25_Shown(text) == Unmarked(Replace(text, <<REMOVE_THIS_LINE>>, <<>>))

\* C25: on return every rebuilt paragraph shows each whole token replaced by
\* the value of its own key, whatever the order of the keys; and a row
\* queued for deletion holds a token of a slot without data.
C25_NoPrefixCollision ==
    /\ Done =>
          \A p \in {p \in AllParas(template) : Rebuilt(p)} :
              /\ ShownAs(p.id, C25_Shown(C25_Whole(ParaText(p), d, 1)))
              /\ \A order \in C25_Orders(ParaText(p)) :
                    C25_ApplyIn(ParaText(p), d, order, 1) = C25_Whole(ParaText(p), d, 1)
    /\ pc = "cells" =>
          \A k \in 1..Len(rows_to_delete) :
              RefersToEmptySlot(get_row_text(doc.tables[tidx][rows_to_delete[k]]), d)

\* RESP10 and RESP1 of one slot in one cell paragraph, each shown by the text
\* of its own responsibility
C25_Witness ==
    /\ Done
    /\ DataBearing(d, 1)
    /\ Len(d.experiences[1].responsibilities) >= 10
    /\ \E p \in CellParas(template) :
          /\ Rebuilt(p)
          /\ Contains(ParaText(p), RespTok(1, 1))
          /\ Contains(ParaText(p), RespTok(1, 10))
          /\ ShownAs(p.id, d.experiences[1].responsibilities[10] \o <<SP>>
                              \o d.experiences[1].responsibilities[1])

(***************************************************************************)
(* C26.  In table scope, when a cell paragraph's substituted text contains *)
(* newlines, it is replaced by one paragraph per line, each formatted      *)
(* independently, and these paragraphs appear consecutively and in line    *)
(* order at the position of the original paragraph, before any paragraph   *)
(* that followed it in the cell.                                           *)
(***************************************************************************)
C26_Cells(document) ==
    UNION {UNION {Range(row) : row \in Range(table)} : table \in Range(document.tables)}

\* the rebuilt cell paragraphs of the template whose text has several lines
C26_MultiLine ==
    {p \in CellParas(template) : Rebuilt(p) /\ Contains(NewText(p), <<NL>>)}

\* the lines of p stand in the cell one paragraph each, from place m on
C26_LinesFrom(cell, p, m) ==
    LET lines == Split(NewText(p), <<NL>>)
    IN /\ m + Len(lines) - 1 <= Len(cell)
       /\ \A i \in 1..Len(lines) :
             /\ Len(cell[m + i - 1].runs) = 1
             /\ ParaText(cell[m + i - 1]) = lines[i]
             /\ i > 1 => cell[m + i - 1].id = NewId

\* C26: on return the lines of a multi-line cell paragraph are consecutive
\* paragraphs of the cell, starting with the original paragraph.
C26_LinesInPlace ==
    Done => \A p \in C26_MultiLine :
                \E cell \in C26_Cells(doc) :
                    \E m \in 1..Len(cell) : cell[m].id = p.id /\ C26_LinesFrom(cell, p, m)

\* what the code does with a text of several lines and no bold pair: the
\* first line stays in the original paragraph, the others are appended to
\* the end of the cell, behind every paragraph the cell had
C26_LinesAtEndOfCell ==
    Done => \A p \in {p \in C26_MultiLine : ~HasBoldPair(NewText(p))} :
                \E cell \in C26_Cells(doc) :
                    LET lines == Split(NewText(p), <<NL>>)
                        rest == Len(cell) - Len(lines) + 1
                    IN /\ \E m \in 1..Len(cell) :
                             cell[m].id = p.id /\ ParaText(cell[m]) = lines[1]
                       /\ \A i \in 2..Len(lines) :
                             /\ cell[rest + i - 1].id = NewId
                             /\ ParaText(cell[rest + i - 1]) = lines[i]

(***************************************************************************)
(* C30.  format_duration is idempotent on its own output: for either value *)
(* of is_first_experience, format_duration(format_duration(s, f), f)       *)
(* equals format_duration(s, f), so validating an already formatted        *)
(* duration changes nothing (in particular a first experience whose        *)
(* duration is already "MMM YYYY to MMM YYYY" keeps its end date).         *)
(***************************************************************************)
\* C30: the result of format_duration, formatted again with the same flag,
\* is that result.
C30_Idempotent ==
    upc = "done" => format_duration(duration_ret, is_first_experience) = duration_ret

\* what the code does: the result is a fixed point when the flag is false
C30_IdempotentUnlessFirst ==
    (upc = "done" /\ ~is_first_experience) =>
        format_duration(duration_ret, is_first_experience) = duration_ret

(***************************************************************************)
(* The session (streamlit_app.py 363-606).  main() runs anew after every   *)
(* click; what lasts is st.session_state.  One action is one run of the    *)
(* script in which a button or a form was submitted, up to its st.rerun(). *)
(* Texts are sequences of characters.  The index of a file and the         *)
(* position of an entry count from 1 here, from 0 in the source.           *)
(***************************************************************************)
\* streamlit_app.py 35-42
has_formation_bio_experience(rec) ==
    \E k \in 1..Len(Get(rec, "experiences", <<>>)) :
        LET company == lower(Get(rec.experiences[k], "company", <<>>))
        IN Contains(company, <<"f", "o", "r", "m", "a", "t", "i", "o", "n">>) /\ Contains(company, <<"b", "i", "o">>)

\* streamlit_app.py 44-47
has_education(rec) ==
    LET education == Get(rec, "education", <<>>)
    IN /\ Len(education) > 0
       /\ \E k \in 1..Len(education) :
             \/ Get(education[k], "degree", <<>>) # <<>>
             \/ Get(education[k], "institution", <<>>) # <<>>

RECURSIVE RemoveWordFrom(_, _, _)
RemoveWordFrom(s, word, i) ==
    IF i > Len(s) THEN <<>>
    ELSE IF /\ i + Len(word) - 1 <= Len(s)
            /\ lower(SubSeq(s, i, i + Len(word) - 1)) = word
            /\ i = 1 \/ ~IsWordChar(s[i - 1])
            /\ i + Len(word) > Len(s) \/ ~IsWordChar(s[i + Len(word)])
    THEN RemoveWordFrom(s, word, i + Len(word))
    ELSE <<s[i]>> \o RemoveWordFrom(s, word, i + 1)

\* re.sub(r'\b' + word + r'\b', '', s, flags=re.IGNORECASE)
RemoveWord(s, word) == RemoveWordFrom(s, word, 1)

words_to_remove == <<<<"r", "e", "s", "u", "m", "e">>, <<"c", "v">>, <<"c", "u", "r", "r", "i", "c", "u", "l", "u", "m">>, <<"v", "i", "t", "a", "e">>, <<"c", "u", "r", "r", "i", "c", "u", "l", "u", "m", "v", "i", "t", "a", "e">>>>

RECURSIVE RemoveWords(_, _)
RemoveWords(s, k) ==
    IF k > Len(words_to_remove) THEN s
    ELSE RemoveWords(RemoveWord(s, words_to_remove[k]), k + 1)

\* the name made of the file name, streamlit_app.py 439-443
NameOfFile(file_name) ==
    LET bare == Replace(Replace(Replace(file_name, <<".", "p", "d", "f">>, <<>>), <<".", "d", "o", "c", "x">>, <<>>),
                        <<".", "t", "x", "t">>, <<>>)
        spaced == Replace(Replace(bare, <<"_">>, <<SP>>), <<"-">>, <<SP>>)
    IN Strip(Join(split(RemoveWords(spaced, 1)), <<SP>>))

\* the entry appended for file i, streamlit_app.py 437-457
SessionEntry(cv, i) ==
    LET given == Get(cv.rec, "candidate_name", <<>>)
        candidate_name == IF given = <<>> \/ given = NameNotProvided
                          THEN NameOfFile(cv.file_name) ELSE given
        stored == Merge([candidate_name |-> candidate_name,
                         extracted_name |-> candidate_name], cv.rec)
    IN [name |-> candidate_name, rec |-> stored,
        has_formation_bio |-> has_formation_bio_experience(stored),
        has_education |-> has_education(stored), index |-> i]

\* the files for which the body of the try at 428-464 reaches the append
Extractable(files) ==
    SelectSeq([i \in 1..Len(files) |-> i], LAMBDA i : files[i].outcome = "text")

\* add_formation_bio_experience, streamlit_app.py 49-64
add_formation_bio_experience(rec, fb_data) ==
    LET parts == Split(fb_data.responsibilities, <<NL>>)
        responsibilities ==
            SelectSeq([k \in 1..Len(parts) |-> Strip(parts[k])], LAMBDA r : r # <<>>)
        new_experience ==
            [company |-> <<"F", "o", "r", "m", "a", "t", "i", "o", "n", " ", "B", "i", "o">>, location |-> fb_data.location,
             role |-> fb_data.job_title,
             duration |-> fb_data.start_date \o <<" ", "t", "o", " ", "P", "r", "e", "s", "e", "n", "t">>,
             responsibilities |-> responsibilities]
    IN Merge([experiences |-> <<new_experience>> \o rec.experiences,
              position |-> fb_data.job_title], rec)

\* add_education, streamlit_app.py 66-79
add_education(rec, edu_data) ==
    LET new_education ==
            [institution |-> edu_data.institution,
             duration |-> Get(edu_data, "duration", <<>>),
             degree |-> edu_data.degree]
    IN Merge([education |-> Append(Get(rec, "education", <<>>), new_education)], rec)

\* list.remove(x)
RemoveFirst(seq, x) ==
    LET k == CHOOSE k \in 1..Len(seq) : seq[k] = x /\ \A j \in 1..(k - 1) : seq[j] # x
    IN SubSeq(seq, 1, k - 1) \o SubSeq(seq, k + 1, Len(seq))

\* the loops at 526-527 and 548-549 reach the form of pending[k]: every index
\* up to there is a position of extracted_data (else line 527 or 549 raises
\* IndexError and the run ends)
FormReached(pending, k) ==
    /\ k \in 1..Len(pending)
    /\ \A j \in 1..k : pending[j] <= Len(extracted_data)

\* records as extract returns them
SessionRecord(candidate_name, experiences, education) ==
    Merge([candidate_name |-> candidate_name, position |-> <<"A", "n", "a", "l", "y", "s", "t">>,
           experiences |-> experiences, education |-> education],
          MakeRecord(<<>>, RestEmpty))

JobAt(company) ==
    [company |-> company, location |-> <<"B", "o", "s", "t", "o", "n">>, role |-> <<"D", "e", "v">>,
     duration |-> <<"J", "A", "N", " ", "2", "0", "2", "0", " ", "t", "o", " ", "P", "r", "e", "s", "e", "n", "t">>, responsibilities |-> <<<<"B", "u", "i", "l", "d", "s">>>>]

Graduate == [institution |-> <<"M", "I", "T">>, duration |-> <<>>, degree |-> <<"B", "S">>]

SessionUploads ==
    {[outcome |-> "text", file_name |-> <<"b", "o", "-", "l", "i", "_", "C", "V", ".", "d", "o", "c", "x">>,
      rec |-> SessionRecord(<<"B", "o", " ", "L", "i">>, <<JobAt(<<"A", "c", "m", "e">>)>>, <<Graduate>>)],
     [outcome |-> "text", file_name |-> <<"D", "e", "e", "_", "R", "a", "y", "-", "R", "e", "s", "u", "m", "e", ".", "p", "d", "f">>,
      rec |-> SessionRecord(NameNotProvided, <<JobAt(<<"B", "i", "o", "F", "o", "r", "m", "a", "t", "i", "o", "n">>)>>,
                            <<[institution |-> <<>>, duration |-> <<"2", "0", "1", "9">>, degree |-> <<>>]>>)],
     [outcome |-> "text", file_name |-> <<"c", "y", ".", "t", "x", "t">>,
      rec |-> SessionRecord(<<"C", "y", " ", "O", "r", "r">>, <<>>, <<>>)],
     [outcome |-> "no_text", file_name |-> <<"s", "c", "a", "n", ".", "p", "d", "f">>, rec |-> <<>>],
     [outcome |-> "raises", file_name |-> <<"b", "a", "d", ".", "d", "o", "c", "x">>, rec |-> <<>>]}

\* what is uploaded: up to MaxBatch different files, at most one of which
\* gives no entry
SessionBatches ==
    {files \in UNION {[1..n -> SessionUploads] : n \in 1..MaxBatch} :
        /\ \A i, j \in 1..Len(files) : i # j => files[i] # files[j]
        /\ Cardinality({i \in 1..Len(files) : files[i].outcome # "text"}) <= 1}

\* company_template.docx
TemplateFile ==
    [paragraphs |-> <<TemplatePara(ParaPool[1]), TemplatePara(ParaPool[10])>>,
     tables |-> << <<ExpRow(1)>> >>]

\* what show_formation_bio_form returns for a valid submission (249-272)
FbForms ==
    {[job_title |-> <<"Q", "A", " ", "L", "e", "a", "d", ",", " ", "Q", "A">>, start_date |-> <<"J", "A", "N", " ", "2", "0", "2", "4">>,
      location |-> <<"N", "e", "w", " ", "Y", "o", "r", "k", ",", " ", "N", "Y">>,
      responsibilities |-> <<"L", "e", "a", "d", "s">> \o <<NL>> \o <<" ", "P", "l", "a", "n", "s", " ">> \o <<NL, NL>> \o <<"T", "e", "s", "t", "s">>]}

\* what show_education_form returns for a valid submission (308-324)
EduForms == {[institution |-> <<"U", "M", "a", "s", "s">>, degree |-> <<"M", "S", "c">>, duration |-> <<>>]}

\* what the user types into a name field
CorrectedNames == {<<"D", ".", " ", "R", "a", "y">>}

SessionInit ==
    /\ cvs \in SessionBatches
    /\ tpl_bytes = <<>>
    /\ render_raises \in {{}, {1}}
    /\ xi = 0
    /\ extracted_data = <<>>
    /\ gi = 0
    /\ converted = <<>>
    /\ converted_cvs = <<>>
    /\ errors = <<>>
    /\ bpc = "idle"
    /\ processing_stage = "upload"
    /\ pending_formation_bio = <<>>
    /\ pending_education = <<>>
    /\ conversion_done = FALSE

\* the button at 411 and the run up to 473; the button is there at every stage
ProcessCVs ==
    /\ processing_stage # "idle"
    /\ cvs # <<>>
    /\ LET kept == Extractable(cvs)
           entries == [k \in 1..Len(kept) |-> SessionEntry(cvs[kept[k]], kept[k])]
           lacking(flag) ==
               SelectSeq([k \in 1..Len(kept) |-> k], LAMBDA k : ~entries[k][flag])
       IN /\ extracted_data' = entries
          /\ pending_formation_bio' =
                [k \in 1..Len(lacking("has_formation_bio")) |->
                    kept[lacking("has_formation_bio")[k]]]
          /\ pending_education' =
                [k \in 1..Len(lacking("has_education")) |->
                    kept[lacking("has_education")[k]]]
    /\ tpl_bytes' = TemplateFile
    /\ processing_stage' = "check_requirements"
    /\ UNCHANGED <<cvs, render_raises, xi, gi, converted, converted_cvs, errors, bpc,
                   conversion_done>>
    /\ UNCHANGED <<fillVars, valVars, fmtVars, dateVars, durVars, fileVars>>

\* the button at 505: name_changes holds the fields that differ from the name
SaveNameChanges ==
    /\ processing_stage = "check_requirements"
    /\ \E name_changes \in
            UNION {[idxs -> CorrectedNames] :
                      idxs \in SUBSET (1..Len(extracted_data)) \ {{}}} :
          /\ \A idx \in DOMAIN name_changes :
                name_changes[idx] # extracted_data[idx].name
          /\ extracted_data' =
                [idx \in 1..Len(extracted_data) |->
                    IF idx \in DOMAIN name_changes
                    THEN [extracted_data[idx] EXCEPT
                             !.name = name_changes[idx],
                             !.rec = Merge([candidate_name |-> name_changes[idx]], @)]
                    ELSE extracted_data[idx]]
    /\ UNCHANGED <<cvs, tpl_bytes, render_raises, xi, gi, converted, converted_cvs,
                   errors, bpc, sessVars>>
    /\ UNCHANGED <<fillVars, valVars, fmtVars, dateVars, durVars, fileVars>>

\* the button at 513
ContinueToNextStep ==
    /\ processing_stage = "check_requirements"
    /\ processing_stage' = "check_formation_bio"
    /\ UNCHANGED <<batchVars, pending_formation_bio, pending_education, conversion_done>>
    /\ UNCHANGED <<fillVars, valVars, fmtVars, dateVars, durVars, fileVars>>

\* SubmitFormationBio without the remove at 535
SubmitFormationBio_keep_pending ==
    /\ processing_stage = "check_formation_bio"
    /\ \E k \in 1..Len(pending_formation_bio), fb_data \in FbForms :
          LET idx == pending_formation_bio[k]
          IN /\ FormReached(pending_formation_bio, k)
             /\ extracted_data' =
                   [extracted_data EXCEPT
                       ![idx].rec = add_formation_bio_experience(@, fb_data),
                       ![idx].has_formation_bio = TRUE]
             /\ pending_formation_bio' = pending_formation_bio
    /\ UNCHANGED <<cvs, tpl_bytes, render_raises, xi, gi, converted, converted_cvs,
                   errors, bpc, processing_stage, pending_education, conversion_done>>
    /\ UNCHANGED <<fillVars, valVars, fmtVars, dateVars, durVars, fileVars>>

\* a form of the loop at 526-538 submitted
SubmitFormationBio ==
    /\ processing_stage = "check_formation_bio"
    /\ \E k \in 1..Len(pending_formation_bio), fb_data \in FbForms :
          LET idx == pending_formation_bio[k]
          IN /\ FormReached(pending_formation_bio, k)
             /\ extracted_data' =
                   [extracted_data EXCEPT
                       ![idx].rec = add_formation_bio_experience(@, fb_data),
                       ![idx].has_formation_bio = TRUE]
             /\ pending_formation_bio' = RemoveFirst(pending_formation_bio, idx)
    /\ UNCHANGED <<cvs, tpl_bytes, render_raises, xi, gi, converted, converted_cvs,
                   errors, bpc, processing_stage, pending_education, conversion_done>>
    /\ UNCHANGED <<fillVars, valVars, fmtVars, dateVars, durVars, fileVars>>

\* SubmitEducation without the test at 542
SubmitEducation_early ==
    /\ processing_stage = "check_formation_bio"
    /\ \E k \in 1..Len(pending_education), edu_data \in EduForms :
          LET idx == pending_education[k]
          IN /\ FormReached(pending_education, k)
             /\ extracted_data' =
                   [extracted_data EXCEPT
                       ![idx].rec = add_education(@, edu_data),
                       ![idx].has_education = TRUE]
             /\ pending_education' = RemoveFirst(pending_education, idx)
    /\ UNCHANGED <<cvs, tpl_bytes, render_raises, xi, gi, converted, converted_cvs,
                   errors, bpc, processing_stage, pending_formation_bio, conversion_done>>
    /\ UNCHANGED <<fillVars, valVars, fmtVars, dateVars, durVars, fileVars>>

\* a form of the loop at 548-560 submitted; the loop is under the test at 542
SubmitEducation ==
    /\ processing_stage = "check_formation_bio"
    /\ pending_formation_bio = <<>>
    /\ \E k \in 1..Len(pending_education), edu_data \in EduForms :
          LET idx == pending_education[k]
          IN /\ FormReached(pending_education, k)
             /\ extracted_data' =
                   [extracted_data EXCEPT
                       ![idx].rec = add_education(@, edu_data),
                       ![idx].has_education = TRUE]
             /\ pending_education' = RemoveFirst(pending_education, idx)
    /\ UNCHANGED <<cvs, tpl_bytes, render_raises, xi, gi, converted, converted_cvs,
                   errors, bpc, processing_stage, pending_formation_bio, conversion_done>>
    /\ UNCHANGED <<fillVars, valVars, fmtVars, dateVars, durVars, fileVars>>

\* the button at 571 and the run up to 606; the rendering of one entry is
\* the call followed step by step in CallFillTemplate .. AppendConverted
GenerateCVs ==
    /\ processing_stage = "check_formation_bio"
    /\ pending_formation_bio = <<>>
    /\ pending_education = <<>>
    /\ LET done == SelectSeq([i \in 1..Len(extracted_data) |-> i],
                             LAMBDA i : i \notin render_raises)
       IN converted_cvs' =
             [k \in 1..Len(done) |->
                 [name |-> extracted_data[done[k]].name,
                  buffer |-> C19_Render(tpl_bytes, extracted_data[done[k]].rec),
                  rec |-> extracted_data[done[k]].rec]]
    /\ conversion_done' = TRUE
    /\ processing_stage' = "complete"
    /\ UNCHANGED <<cvs, tpl_bytes, render_raises, xi, extracted_data, gi, converted,
                   errors, bpc, pending_formation_bio, pending_education>>
    /\ UNCHANGED <<fillVars, valVars, fmtVars, dateVars, durVars, fileVars>>

SessionNext ==
    \/ ProcessCVs
    \/ SaveNameChanges
    \/ ContinueToNextStep
    \/ SubmitFormationBio
    \/ SubmitEducation
    \/ GenerateCVs

InitSession ==
    /\ SessionInit
    /\ FillIdle /\ ValidateIdle /\ FormatIdle /\ DateIdle /\ DurationIdle /\ FileIdle

SpecSession == InitSession /\ [][SessionNext]_vars

(***************************************************************************)
(* C29: the pending lists                                                  *)
(***************************************************************************)
C29_InForms == processing_stage \in {"check_requirements", "check_formation_bio"}

C29_Members(pending) == {pending[k] : k \in 1..Len(pending)}

C29_Valid(pending) == \A k \in 1..Len(pending) : pending[k] \in 1..Len(extracted_data)

\* C29: after the extraction step every index stored in pending_formation_bio
\* and in pending_education is a position of extracted_data, and the indices
\* stored are exactly the positions of the records that lack a Formation Bio
\* experience, or education, also when files were skipped.
C29_PendingDenoteLacking ==
    C29_InForms =>
        /\ C29_Valid(pending_formation_bio)
        /\ C29_Valid(pending_education)
        /\ C29_Members(pending_formation_bio) =
              {k \in 1..Len(extracted_data) :
                  ~has_formation_bio_experience(extracted_data[k].rec)}
        /\ C29_Members(pending_education) =
              {k \in 1..Len(extracted_data) : ~has_education(extracted_data[k].rec)}

\* the same when every uploaded file gave an entry
C29_PendingDenoteLackingUnlessSkipped ==
    Len(extracted_data) = Len(cvs) => C29_PendingDenoteLacking

\* the indices stored are indices of uploaded files, whose entries lacked
\* the experience or the education when they were extracted
C29_PendingDenoteFiles ==
    C29_InForms =>
        /\ C29_Members(pending_formation_bio) \subseteq
              {i \in 1..Len(cvs) : /\ cvs[i].outcome = "text"
                                   /\ ~SessionEntry(cvs[i], i).has_formation_bio}
        /\ C29_Members(pending_education) \subseteq
              {i \in 1..Len(cvs) : /\ cvs[i].outcome = "text"
                                   /\ ~SessionEntry(cvs[i], i).has_education}

(***************************************************************************)
(* C28: the order of the stages                                            *)
(***************************************************************************)
C28_Order ==
    {<<"upload", "check_requirements">>,
     <<"check_requirements", "check_formation_bio">>,
     <<"check_formation_bio", "complete">>}

\* an education entry is added to a stored record
C28_EducationFormStep ==
    /\ Len(extracted_data') = Len(extracted_data)
    /\ \E k \in 1..Len(extracted_data) :
          Len(extracted_data'[k].rec.education) > Len(extracted_data[k].rec.education)

\* the results of the session are written
C28_RenderStep ==
    \/ converted_cvs' # converted_cvs
    \/ conversion_done' # conversion_done
    \/ processing_stage' = "complete" /\ processing_stage # "complete"

\* converted_cvs holds renderings of stored records on the template read
C28_Rendered ==
    /\ conversion_done'
    /\ \A k \in 1..Len(converted_cvs') :
          /\ converted_cvs'[k].buffer = C19_Render(tpl_bytes, converted_cvs'[k].rec)
          /\ \E j \in 1..Len(extracted_data) :
                converted_cvs'[k].rec = extracted_data[j].rec

C28_Gates ==
    /\ C28_EducationFormStep => pending_formation_bio = <<>>
    /\ C28_RenderStep =>
          /\ processing_stage = "check_formation_bio"
          /\ pending_formation_bio = <<>>
          /\ pending_education = <<>>
    /\ processing_stage' = "complete" /\ processing_stage # "complete" => C28_Rendered

\* the extraction step: entries and pending lists are built anew of the uploads
C28_Restart ==
    /\ processing_stage' = "check_requirements"
    /\ Len(extracted_data') = Len(Extractable(cvs))
    /\ \A k \in 1..Len(extracted_data') :
          extracted_data'[k] = SessionEntry(cvs[Extractable(cvs)[k]], Extractable(cvs)[k])
    /\ \A k \in 1..Len(pending_formation_bio') :
          pending_formation_bio'[k] \in C29_Members(Extractable(cvs))
    /\ \A k \in 1..Len(pending_education') :
          pending_education'[k] \in C29_Members(Extractable(cvs))

\* C28 as stated: the stages are entered only in the order upload,
\* check_requirements, check_formation_bio, complete; education forms are
\* offered only while pending_formation_bio is empty; Generate CVs runs only
\* when both pending lists are empty; the stage becomes complete only
\* through that step.
C28_StagesInOrder ==
    [][/\ processing_stage' # processing_stage =>
              <<processing_stage, processing_stage'>> \in C28_Order
       /\ C28_Gates]_vars

\* C28: as above, except that the extraction step (Process CVs, offered at
\* every stage) enters check_requirements from any stage and then builds
\* extracted_data and the pending lists anew.
C28_StagesInOrderOrRestart ==
    [][/\ processing_stage' # processing_stage =>
              \/ <<processing_stage, processing_stage'>> \in C28_Order
              \/ C28_Restart
       /\ C28_Gates]_vars

C28_FormExperience(rec) ==
    \E k \in 1..Len(rec.experiences), f \in FbForms :
        rec.experiences[k].role = f.job_title

C28_FormEducation(rec) ==
    \E k \in 1..Len(rec.education), f \in EduForms :
        rec.education[k].institution = f.institution

\* a session completed after an experience form and then an education form
C28_Witness ==
    /\ processing_stage = "complete"
    /\ \E k \in 1..Len(extracted_data) :
          /\ C28_FormExperience(extracted_data[k].rec)
          /\ C28_FormEducation(extracted_data[k].rec)

\* a second pass: the extraction step has been taken after a completed session
C28_RestartWitness ==
    /\ processing_stage = "check_requirements"
    /\ conversion_done

(***************************************************************************)
(* C27: what changes a record between validation and rendering             *)
(***************************************************************************)
\* the record as validation returned it, for the entry made of file i
C27_Validated(entry) == cvs[entry.index].rec

C27_SameBut(old, new, keys) ==
    /\ DOMAIN new \ keys = DOMAIN old \ keys
    /\ \A key \in DOMAIN old \ keys : new[key] = old[key]

\* one experience put first, the others as they were
C27_Prepended(old, new) ==
    /\ Len(new.experiences) = Len(old.experiences) + 1
    /\ Tail(new.experiences) = old.experiences

\* one education put last, the others as they were
C27_Appended(old, new) ==
    /\ Len(new.education) = Len(old.education) + 1
    /\ SubSeq(new.education, 1, Len(old.education)) = old.education

\* every stored record has at most one experience and at most one education
\* more than validation returned
C27_AtMostOnce ==
    \A k \in 1..Len(extracted_data') :
        LET new == extracted_data'[k].rec
            old == C27_Validated(extracted_data'[k])
        IN /\ Len(new.experiences) <= Len(old.experiences) + 1
           /\ Len(new.education) <= Len(old.education) + 1

\* what a render step keeps with its results are stored records, unchanged
C27_RenderedAsStored ==
    converted_cvs' # converted_cvs =>
        /\ extracted_data' = extracted_data
        /\ \A k \in 1..Len(converted_cvs') :
              \E j \in 1..Len(extracted_data) :
                  converted_cvs'[k].rec = extracted_data[j].rec

\* the step is a run of the extraction
C27_Extraction == ProcessCVs

\* C27 as stated: a record is amended at most twice, by one prepend of an
\* experience and one append of an education, each leaving every other field
\* and every present entry as it was; no other step changes the record.
C27_TwoAmendmentsOnly ==
    [][/\ C27_AtMostOnce
       /\ C27_RenderedAsStored
       /\ IF C27_Extraction
          THEN \A k \in 1..Len(extracted_data') :
                  extracted_data'[k].rec = C27_Validated(extracted_data'[k])
          ELSE /\ Len(extracted_data') = Len(extracted_data)
               /\ \A k \in 1..Len(extracted_data) :
                     LET old == extracted_data[k].rec
                         new == extracted_data'[k].rec
                     IN \/ new = old
                        \/ C27_Prepended(old, new) /\ C27_SameBut(old, new, {"experiences"})
                        \/ C27_Appended(old, new) /\ C27_SameBut(old, new, {"education"})]_vars

\* C27: a record gets at most one experience, put first, and at most one
\* education, put last; the prepend also sets position to the role of the
\* new experience; the extraction step stores the record with extracted_name
\* added and candidate_name possibly replaced, and saving a name sets
\* candidate_name; apart from these no step changes a field or an entry.
C27_AmendmentsAndNames ==
    [][/\ C27_AtMostOnce
       /\ C27_RenderedAsStored
       /\ IF C27_Extraction
          THEN \A k \in 1..Len(extracted_data') :
                  LET old == C27_Validated(extracted_data'[k])
                      new == extracted_data'[k].rec
                  IN /\ C27_SameBut(old, new, {"candidate_name", "extracted_name"})
                     /\ new.extracted_name = new.candidate_name
                     /\ new.candidate_name = extracted_data'[k].name
                     /\ \/ new.candidate_name = old.candidate_name
                        \/ old.candidate_name \in {<<>>, NameNotProvided}
          ELSE /\ Len(extracted_data') = Len(extracted_data)
               /\ \A k \in 1..Len(extracted_data) :
                     LET old == extracted_data[k].rec
                         new == extracted_data'[k].rec
                     IN \/ new = old
                        \/ /\ C27_Prepended(old, new)
                           /\ C27_SameBut(old, new, {"experiences", "position"})
                           /\ new.position = new.experiences[1].role
                        \/ C27_Appended(old, new) /\ C27_SameBut(old, new, {"education"})
                        \/ /\ C27_SameBut(old, new, {"candidate_name"})
                           /\ new.candidate_name = extracted_data'[k].name
                           /\ processing_stage = "check_requirements"]_vars

\* rendered: a record with a corrected name, a form experience first and a
\* form education last
C27_Witness ==
    \E k \in 1..Len(converted_cvs) :
        LET rec == converted_cvs[k].rec
        IN /\ rec.candidate_name \in CorrectedNames
           /\ rec.experiences # <<>> /\ rec.education # <<>>
           /\ \E f \in FbForms : rec.experiences[1].role = f.job_title /\ rec.position = f.job_title
           /\ \E f \in EduForms : rec.education[Len(rec.education)].institution = f.institution

\* the three ways in which the statement as made fails, each alone
C27_PositionKept ==
    [][\A k \in 1..Len(extracted_data') :
          k <= Len(extracted_data) /\ ~C27_Extraction =>
             extracted_data'[k].rec.position = extracted_data[k].rec.position]_vars

C27_NameKept ==
    [][\A k \in 1..Len(extracted_data') :
          k <= Len(extracted_data) /\ ~C27_Extraction =>
             extracted_data'[k].rec.candidate_name = extracted_data[k].rec.candidate_name]_vars

C27_StoredAsValidated ==
    [][C27_Extraction =>
          \A k \in 1..Len(extracted_data') :
             extracted_data'[k].rec = C27_Validated(extracted_data'[k])]_vars

====
